---- MODULE Spec2Model ----
(***************************************************************************)
(* A model of the 6502 emulator core: the Bus (64 KiB RAM plus the page    *)
(* table of memory-mapped devices), the register file, the opcode table,   *)
(* the addressing-mode decoder, the instruction executor (run_instr) and   *)
(* the assembler helper.  Byte is 0..255, Word is 0..65535; every          *)
(* conversion to uint8_t / uint16_t of the C++ code is an explicit         *)
(* reduction modulo 2^8 / 2^16 here.                                       *)
(***************************************************************************)
EXTENDS Integers, Sequences, FiniteSets, TLC

VARIABLES
    ram,          \* Bus::ram, as the finite map of its non-zero bytes
    page_device,  \* Bus::page_device, as the finite map of its non-null entries
    dev,          \* the Device objects the caller owns (TestDevice of test_bus.cpp)
    regs,         \* the RegisterFile
    org_,         \* Assembler::org_
    aborted,      \* TRUE once abort() has ended the process
    oob,          \* the stores made past the end of Bus::ram (undefined behaviour)
    labels_,      \* Assembler::labels_, the map from names to Label objects
    trace,        \* the Bus::read / Bus::write calls made by the last operation, in order
    last,         \* the last operation the caller performed, with its arguments and result
    nops          \* number of operations performed so far

vars == <<ram, page_device, dev, regs, org_, aborted, oob, labels_, trace, last, nops>>

----------------------------------------------------------------------------
(* Fixed-width integer arithmetic.                                          *)

U8(x) == x % 256

U16(x) == x % 65536

RECURSIVE BitAnd(_, _)
BitAnd(a, b) ==
    IF a = 0 \/ b = 0 THEN 0
    ELSE (a % 2) * (b % 2) + 2 * BitAnd(a \div 2, b \div 2)

RECURSIVE BitOr(_, _)
BitOr(a, b) ==
    IF a = 0 THEN b
    ELSE IF b = 0 THEN a
    ELSE (IF (a % 2) + (b % 2) > 0 THEN 1 ELSE 0) + 2 * BitOr(a \div 2, b \div 2)

RECURSIVE BitXor(_, _)
BitXor(a, b) ==
    IF a = 0 THEN b
    ELSE IF b = 0 THEN a
    ELSE ((a + b) % 2) + 2 * BitXor(a \div 2, b \div 2)

Bit(x, i) == (x \div (2 ^ i)) % 2

Bool(p) == IF p THEN 1 ELSE 0

\* int8_t(b): the byte b read as a two's complement number
int8_t(b) == IF b >= 128 THEN b - 256 ELSE b

----------------------------------------------------------------------------
(* The Bus.                                                                 *)

Pages == 0 .. 255

\* The devices of the harness: 0 stands for the null pointer.
DevIds == {1, 2}

\* ram[addr] of the 64 KiB array, kept as the finite map of its non-zero bytes
RamAt(r, addr) == IF addr \in DOMAIN r THEN r[addr] ELSE 0

RamSet(r, addr, val) ==
    IF val = 0
    THEN [x \in (DOMAIN r) \ {addr} |-> r[x]]
    ELSE [x \in (DOMAIN r) \cup {addr} |-> IF x = addr THEN val ELSE r[x]]

\* page_device[page] of the 256-entry table, kept as the finite map of its
\* non-null entries; 0 is the null pointer
PageAt(pd, page) == IF page \in DOMAIN pd THEN pd[page] ELSE 0

\* The bus together with the devices behind it, and the log of routed accesses.
World == [ram |-> ram, page_device |-> page_device, dev |-> dev, trace |-> <<>>]

Logged(w, op, addr, val, d) ==
    Append(w.trace, [op |-> op, addr |-> addr, val |-> val, dev |-> d])

\* TestDevice::read: count the call, answer read_val
DeviceRead(w, d, addr) ==
    [w EXCEPT !.dev[d].read_count = @ + 1,
              !.trace = Logged(w, "r", addr, w.dev[d].read_val, d)]

\* TestDevice::write: count the call, remember the low address byte and the value
DeviceWrite(w, d, addr, val) ==
    [w EXCEPT !.dev[d].write_count = @ + 1,
              !.dev[d].last_write_addr_lo = BitAnd(addr, 255),
              !.dev[d].last_write_val = val,
              !.trace = Logged(w, "w", addr, val, d)]

\* Mutant of read: the page table is not consulted
read_unrouted(w, addr) ==
    LET a == U16(addr)
    IN  [w |-> [w EXCEPT !.trace = Logged(w, "r", a, RamAt(w.ram, a), 0)],
         val |-> RamAt(w.ram, a)]

\* Bus::read; the argument is converted to uint16_t at the call
read(w, addr) ==
    LET a == U16(addr)
        d == PageAt(w.page_device, a \div 256)
    IN  IF d # 0
        THEN [w |-> DeviceRead(w, d, a), val |-> w.dev[d].read_val]
        ELSE [w |-> [w EXCEPT !.trace = Logged(w, "r", a, RamAt(w.ram, a), 0)],
              val |-> RamAt(w.ram, a)]

\* Bus::write
write(w, addr, val) ==
    LET a == U16(addr)
        v == U8(val)
        d == PageAt(w.page_device, a \div 256)
    IN  IF d # 0
        THEN DeviceWrite(w, d, a, v)
        ELSE [w EXCEPT !.ram = RamSet(w.ram, a, v),
                       !.trace = Logged(w, "w", a, v, 0)]

\* ll | (hh << 8) of two bytes read one after the other; the bus is as the
\* second read left it
Word(ll, hh) == [w |-> hh.w, val |-> BitOr(hh.val * 256, ll.val)]

\* auto hh = read(addr), made after the read ll
ReadHi(ll, addr) == Word(ll, read(ll.w, addr))

\* auto ll = read(lo); auto hh = read(hi); ll | (hh << 8)
ReadWord(w, lo, hi) == ReadHi(read(w, lo), hi)

\* Bus::read16
read16(w, addr) == ReadWord(w, addr, BitAnd(U16(addr) + 1, 65535))

\* Bus::write16 storing the high byte at addr and the low byte after it
write16_high_first(w, addr, val) ==
    write(write(w, addr, BitAnd(val \div 256, 255)),
          BitAnd(U16(addr) + 1, 65535), BitAnd(val, 255))

\* Bus::write16
write16(w, addr, val) ==
    write(write(w, addr, BitAnd(val, 255)),
          BitAnd(U16(addr) + 1, 65535), BitAnd(val \div 256, 255))

\* Bus::reset zeroing ram only
BusReset_ram_only(w) == [w EXCEPT !.ram = [a \in {} |-> 0]]

\* Bus::reset: both arrays are zeroed
BusReset(w) == [w EXCEPT !.ram = [a \in {} |-> 0], !.page_device = [p \in {} |-> 0]]

\* Bus::map(page, dev)
map(w, page, d) ==
    [w EXCEPT !.page_device =
        IF d = 0
        THEN [p \in (DOMAIN @) \ {page} |-> @[p]]
        ELSE [p \in (DOMAIN @) \cup {page} |-> IF p = page THEN d ELSE @[p]]]

\* The loop of Bus::map(page_start, page_end, dev) from p on; p is unsigned, so
\* it passes 255 without wrapping
RECURSIVE MapLoop(_, _, _, _)
MapLoop(w, p, page_end, d) ==
    IF p <= page_end THEN MapLoop(map(w, p, d), p + 1, page_end, d) ELSE w

\* The same loop with p < page_end as its test
mapRange_exclusive(w, page_start, page_end, d) ==
    LET covered == {p \in Pages : page_start <= p /\ p < page_end}
    IN  [w EXCEPT !.page_device =
            [p \in (DOMAIN @) \cup covered |-> IF p \in covered THEN d ELSE @[p]]]

\* Bus::map(page_start, page_end, dev): for (unsigned p = start; p <= end; ++p)
mapRange(w, page_start, page_end, d) == MapLoop(w, page_start, page_end, d)

\* Bus::operator[] read (const and non-const): the RAM byte, no routing
IndexGet(w, addr) == RamAt(w.ram, U16(addr))

\* Mutant of IndexSet: the store goes through the routed write
IndexSet_routed(w, addr, val) ==
    LET a == U16(addr)
        d == PageAt(w.page_device, a \div 256)
    IN  IF d # 0
        THEN [w EXCEPT !.dev[d].write_count = @ + 1,
                       !.dev[d].last_write_addr_lo = a % 256,
                       !.dev[d].last_write_val = U8(val)]
        ELSE [w EXCEPT !.ram = RamSet(w.ram, a, U8(val))]

\* Bus::operator[] used as an lvalue: a store into the RAM byte, no routing
IndexSet(w, addr, val) == [w EXCEPT !.ram = RamSet(w.ram, U16(addr), U8(val))]

----------------------------------------------------------------------------
(* Addressing modes and the opcode table.                                   *)

AddressingModes ==
    {"ACCUMULATOR", "ABS", "ABS_X", "ABS_Y", "IMMEDIATE", "IMPLIED", "INDIRECT",
     "X_IND", "IND_Y", "REL", "ZPG", "ZPG_X", "ZPG_Y"}

\* addressing_mode_to_length: the length column of ADDRESSING_MODES()
addressing_mode_to_length(mode) ==
    CASE mode \in {"ACCUMULATOR", "IMPLIED"} -> 1
      [] mode \in {"IMMEDIATE", "X_IND", "IND_Y", "REL", "ZPG", "ZPG_X", "ZPG_Y"} -> 2
      [] mode \in {"ABS", "ABS_X", "ABS_Y", "INDIRECT"} -> 3

\* const Opcode opcodeTable[], in the order of the source
opcodeTable == <<
    [mnem |-> "BRK", byte |-> 0, mode |-> "IMPLIED"],
    [mnem |-> "ORA", byte |-> 1, mode |-> "X_IND"],
    [mnem |-> "ORA", byte |-> 5, mode |-> "ZPG"],
    [mnem |-> "ORA", byte |-> 9, mode |-> "IMMEDIATE"],
    [mnem |-> "ORA", byte |-> 13, mode |-> "ABS"],
    [mnem |-> "ORA", byte |-> 17, mode |-> "IND_Y"],
    [mnem |-> "ORA", byte |-> 21, mode |-> "ZPG_X"],
    [mnem |-> "ORA", byte |-> 25, mode |-> "ABS_Y"],
    [mnem |-> "ORA", byte |-> 29, mode |-> "ABS_X"],
    [mnem |-> "AND", byte |-> 33, mode |-> "X_IND"],
    [mnem |-> "AND", byte |-> 37, mode |-> "ZPG"],
    [mnem |-> "AND", byte |-> 41, mode |-> "IMMEDIATE"],
    [mnem |-> "AND", byte |-> 45, mode |-> "ABS"],
    [mnem |-> "AND", byte |-> 49, mode |-> "IND_Y"],
    [mnem |-> "AND", byte |-> 53, mode |-> "ZPG_X"],
    [mnem |-> "AND", byte |-> 57, mode |-> "ABS_Y"],
    [mnem |-> "AND", byte |-> 61, mode |-> "ABS_X"],
    [mnem |-> "EOR", byte |-> 65, mode |-> "X_IND"],
    [mnem |-> "EOR", byte |-> 69, mode |-> "ZPG"],
    [mnem |-> "EOR", byte |-> 73, mode |-> "IMMEDIATE"],
    [mnem |-> "EOR", byte |-> 77, mode |-> "ABS"],
    [mnem |-> "EOR", byte |-> 81, mode |-> "IND_Y"],
    [mnem |-> "EOR", byte |-> 85, mode |-> "ZPG_X"],
    [mnem |-> "EOR", byte |-> 89, mode |-> "ABS_Y"],
    [mnem |-> "EOR", byte |-> 93, mode |-> "ABS_X"],
    [mnem |-> "ADC", byte |-> 97, mode |-> "X_IND"],
    [mnem |-> "ADC", byte |-> 101, mode |-> "ZPG"],
    [mnem |-> "ADC", byte |-> 105, mode |-> "IMMEDIATE"],
    [mnem |-> "ADC", byte |-> 109, mode |-> "ABS"],
    [mnem |-> "ADC", byte |-> 113, mode |-> "IND_Y"],
    [mnem |-> "ADC", byte |-> 117, mode |-> "ZPG_X"],
    [mnem |-> "ADC", byte |-> 121, mode |-> "ABS_Y"],
    [mnem |-> "ADC", byte |-> 125, mode |-> "ABS_X"],
    [mnem |-> "SBC", byte |-> 225, mode |-> "X_IND"],
    [mnem |-> "SBC", byte |-> 229, mode |-> "ZPG"],
    [mnem |-> "SBC", byte |-> 233, mode |-> "IMMEDIATE"],
    [mnem |-> "SBC", byte |-> 237, mode |-> "ABS"],
    [mnem |-> "SBC", byte |-> 241, mode |-> "IND_Y"],
    [mnem |-> "SBC", byte |-> 245, mode |-> "ZPG_X"],
    [mnem |-> "SBC", byte |-> 249, mode |-> "ABS_Y"],
    [mnem |-> "SBC", byte |-> 253, mode |-> "ABS_X"],
    [mnem |-> "ASL", byte |-> 10, mode |-> "ACCUMULATOR"],
    [mnem |-> "ASL", byte |-> 6, mode |-> "ZPG"],
    [mnem |-> "ASL", byte |-> 22, mode |-> "ZPG_X"],
    [mnem |-> "ASL", byte |-> 14, mode |-> "ABS"],
    [mnem |-> "ASL", byte |-> 30, mode |-> "ABS_X"],
    [mnem |-> "LSR", byte |-> 74, mode |-> "ACCUMULATOR"],
    [mnem |-> "LSR", byte |-> 70, mode |-> "ZPG"],
    [mnem |-> "LSR", byte |-> 86, mode |-> "ZPG_X"],
    [mnem |-> "LSR", byte |-> 78, mode |-> "ABS"],
    [mnem |-> "LSR", byte |-> 94, mode |-> "ABS_X"],
    [mnem |-> "ROL", byte |-> 42, mode |-> "ACCUMULATOR"],
    [mnem |-> "ROL", byte |-> 38, mode |-> "ZPG"],
    [mnem |-> "ROL", byte |-> 54, mode |-> "ZPG_X"],
    [mnem |-> "ROL", byte |-> 46, mode |-> "ABS"],
    [mnem |-> "ROL", byte |-> 62, mode |-> "ABS_X"],
    [mnem |-> "ROR", byte |-> 106, mode |-> "ACCUMULATOR"],
    [mnem |-> "ROR", byte |-> 102, mode |-> "ZPG"],
    [mnem |-> "ROR", byte |-> 118, mode |-> "ZPG_X"],
    [mnem |-> "ROR", byte |-> 110, mode |-> "ABS"],
    [mnem |-> "ROR", byte |-> 126, mode |-> "ABS_X"],
    [mnem |-> "RTI", byte |-> 64, mode |-> "IMPLIED"],
    [mnem |-> "JMP", byte |-> 76, mode |-> "ABS"],
    [mnem |-> "JMP", byte |-> 108, mode |-> "INDIRECT"],
    [mnem |-> "JSR", byte |-> 32, mode |-> "ABS"],
    [mnem |-> "RTS", byte |-> 96, mode |-> "IMPLIED"],
    [mnem |-> "LDA", byte |-> 161, mode |-> "X_IND"],
    [mnem |-> "LDA", byte |-> 165, mode |-> "ZPG"],
    [mnem |-> "LDA", byte |-> 169, mode |-> "IMMEDIATE"],
    [mnem |-> "LDA", byte |-> 173, mode |-> "ABS"],
    [mnem |-> "LDA", byte |-> 177, mode |-> "IND_Y"],
    [mnem |-> "LDA", byte |-> 181, mode |-> "ZPG_X"],
    [mnem |-> "LDA", byte |-> 185, mode |-> "ABS_Y"],
    [mnem |-> "LDA", byte |-> 189, mode |-> "ABS_X"],
    [mnem |-> "LDX", byte |-> 162, mode |-> "IMMEDIATE"],
    [mnem |-> "LDX", byte |-> 166, mode |-> "ZPG"],
    [mnem |-> "LDX", byte |-> 182, mode |-> "ZPG_Y"],
    [mnem |-> "LDX", byte |-> 174, mode |-> "ABS"],
    [mnem |-> "LDX", byte |-> 190, mode |-> "ABS_Y"],
    [mnem |-> "LDY", byte |-> 160, mode |-> "IMMEDIATE"],
    [mnem |-> "LDY", byte |-> 164, mode |-> "ZPG"],
    [mnem |-> "LDY", byte |-> 180, mode |-> "ZPG_X"],
    [mnem |-> "LDY", byte |-> 172, mode |-> "ABS"],
    [mnem |-> "LDY", byte |-> 188, mode |-> "ABS_X"],
    [mnem |-> "STA", byte |-> 129, mode |-> "X_IND"],
    [mnem |-> "STA", byte |-> 133, mode |-> "ZPG"],
    [mnem |-> "STA", byte |-> 141, mode |-> "ABS"],
    [mnem |-> "STA", byte |-> 145, mode |-> "IND_Y"],
    [mnem |-> "STA", byte |-> 149, mode |-> "ZPG_X"],
    [mnem |-> "STA", byte |-> 153, mode |-> "ABS_Y"],
    [mnem |-> "STA", byte |-> 157, mode |-> "ABS_X"],
    [mnem |-> "STX", byte |-> 134, mode |-> "ZPG"],
    [mnem |-> "STX", byte |-> 150, mode |-> "ZPG_Y"],
    [mnem |-> "STX", byte |-> 142, mode |-> "ABS"],
    [mnem |-> "STY", byte |-> 132, mode |-> "ZPG"],
    [mnem |-> "STY", byte |-> 148, mode |-> "ZPG_X"],
    [mnem |-> "STY", byte |-> 140, mode |-> "ABS"],
    [mnem |-> "BCC", byte |-> 144, mode |-> "REL"],
    [mnem |-> "BCS", byte |-> 176, mode |-> "REL"],
    [mnem |-> "BEQ", byte |-> 240, mode |-> "REL"],
    [mnem |-> "BMI", byte |-> 48, mode |-> "REL"],
    [mnem |-> "BNE", byte |-> 208, mode |-> "REL"],
    [mnem |-> "BPL", byte |-> 16, mode |-> "REL"],
    [mnem |-> "BVC", byte |-> 80, mode |-> "REL"],
    [mnem |-> "BVS", byte |-> 112, mode |-> "REL"],
    [mnem |-> "INC", byte |-> 230, mode |-> "ZPG"],
    [mnem |-> "INC", byte |-> 246, mode |-> "ZPG_X"],
    [mnem |-> "INC", byte |-> 238, mode |-> "ABS"],
    [mnem |-> "INC", byte |-> 254, mode |-> "ABS_X"],
    [mnem |-> "DEC", byte |-> 198, mode |-> "ZPG"],
    [mnem |-> "DEC", byte |-> 214, mode |-> "ZPG_X"],
    [mnem |-> "DEC", byte |-> 206, mode |-> "ABS"],
    [mnem |-> "DEC", byte |-> 222, mode |-> "ABS_X"],
    [mnem |-> "INX", byte |-> 232, mode |-> "IMPLIED"],
    [mnem |-> "INY", byte |-> 200, mode |-> "IMPLIED"],
    [mnem |-> "DEX", byte |-> 202, mode |-> "IMPLIED"],
    [mnem |-> "DEY", byte |-> 136, mode |-> "IMPLIED"],
    [mnem |-> "CLC", byte |-> 24, mode |-> "IMPLIED"],
    [mnem |-> "CLD", byte |-> 216, mode |-> "IMPLIED"],
    [mnem |-> "CLI", byte |-> 88, mode |-> "IMPLIED"],
    [mnem |-> "CLV", byte |-> 184, mode |-> "IMPLIED"],
    [mnem |-> "SEC", byte |-> 56, mode |-> "IMPLIED"],
    [mnem |-> "SED", byte |-> 248, mode |-> "IMPLIED"],
    [mnem |-> "SEI", byte |-> 120, mode |-> "IMPLIED"],
    [mnem |-> "TAX", byte |-> 170, mode |-> "IMPLIED"],
    [mnem |-> "TAY", byte |-> 168, mode |-> "IMPLIED"],
    [mnem |-> "TXA", byte |-> 138, mode |-> "IMPLIED"],
    [mnem |-> "TYA", byte |-> 152, mode |-> "IMPLIED"],
    [mnem |-> "TSX", byte |-> 186, mode |-> "IMPLIED"],
    [mnem |-> "TXS", byte |-> 154, mode |-> "IMPLIED"],
    [mnem |-> "CMP", byte |-> 193, mode |-> "X_IND"],
    [mnem |-> "CMP", byte |-> 197, mode |-> "ZPG"],
    [mnem |-> "CMP", byte |-> 201, mode |-> "IMMEDIATE"],
    [mnem |-> "CMP", byte |-> 205, mode |-> "ABS"],
    [mnem |-> "CMP", byte |-> 209, mode |-> "IND_Y"],
    [mnem |-> "CMP", byte |-> 213, mode |-> "ZPG_X"],
    [mnem |-> "CMP", byte |-> 217, mode |-> "ABS_Y"],
    [mnem |-> "CMP", byte |-> 221, mode |-> "ABS_X"],
    [mnem |-> "CPX", byte |-> 224, mode |-> "IMMEDIATE"],
    [mnem |-> "CPX", byte |-> 228, mode |-> "ZPG"],
    [mnem |-> "CPX", byte |-> 236, mode |-> "ABS"],
    [mnem |-> "CPY", byte |-> 192, mode |-> "IMMEDIATE"],
    [mnem |-> "CPY", byte |-> 196, mode |-> "ZPG"],
    [mnem |-> "CPY", byte |-> 204, mode |-> "ABS"],
    [mnem |-> "PHA", byte |-> 72, mode |-> "IMPLIED"],
    [mnem |-> "PHP", byte |-> 8, mode |-> "IMPLIED"],
    [mnem |-> "PLA", byte |-> 104, mode |-> "IMPLIED"],
    [mnem |-> "PLP", byte |-> 40, mode |-> "IMPLIED"],
    [mnem |-> "BIT", byte |-> 36, mode |-> "ZPG"],
    [mnem |-> "BIT", byte |-> 44, mode |-> "ABS"],
    [mnem |-> "NOP", byte |-> 234, mode |-> "IMPLIED"]>>

Mnemonics == {opcodeTable[i].mnem : i \in DOMAIN opcodeTable}

\* What abort() leaves in place of a returned record
NOT_REACHED == [mnem |-> "abort", byte |-> 256, mode |-> "abort"]

\* The record a linear search returns: the first of the matching indices,
\* and abort() when the loop runs off the end of the table
FirstOf(hits) ==
    IF hits = {} THEN NOT_REACHED
    ELSE opcodeTable[CHOOSE i \in hits : \A j \in hits : i <= j]

\* Mutant of byte_to_opcode: a miss answers with the first record
byte_to_opcode_default(byte) ==
    LET hits == {i \in DOMAIN opcodeTable : opcodeTable[i].byte = byte}
    IN  IF hits = {} THEN opcodeTable[1] ELSE FirstOf(hits)

\* The linear search of byte_to_opcode, worked out once for each byte value
SearchByByte ==
    [byte \in 0 .. 255 |-> FirstOf({i \in DOMAIN opcodeTable : opcodeTable[i].byte = byte})]

\* byte_to_opcode: linear search, abort() when no record has the byte
byte_to_opcode(byte) == SearchByByte[byte]

\* Mutant of mnem_addr_to_opcode: the mode is not compared
mnem_addr_to_opcode_any_mode(mnem, mode) ==
    FirstOf({i \in DOMAIN opcodeTable : opcodeTable[i].mnem = mnem})

\* mnem_addr_to_opcode: linear search, abort() when no record has the pair
mnem_addr_to_opcode(mnem, mode) ==
    FirstOf({i \in DOMAIN opcodeTable :
                opcodeTable[i].mnem = mnem /\ opcodeTable[i].mode = mode})

\* flags:: bits used as masks by set_flags
FlagMasks == {"N", "Z", "C"}

\* instrs_to_flags[mnem]: the mask column of MNEMONICS().  The handlers of ORA,
\* AND, EOR and LDA leave N and Z to set_flags; every other handler writes its
\* flags itself.
instrs_to_flags(mnem) ==
    IF mnem \in {"ORA", "AND", "EOR", "LDA"} THEN {"N", "Z"} ELSE {}

----------------------------------------------------------------------------
(* The register file.                                                       *)

\* read_flags without the bit that is always pushed as 1
read_flags_without_bit5(r, breakp) ==
    r.flags.C + 2 * r.flags.Z + 4 * r.flags.I + 8 * r.flags.D
        + 16 * Bool(breakp) + 64 * r.flags.V + 128 * r.flags.N

\* RegisterFile::read_flags
read_flags(r, breakp) ==
    r.flags.C + 2 * r.flags.Z + 4 * r.flags.I + 8 * r.flags.D
        + 16 * Bool(breakp) + 32 + 64 * r.flags.V + 128 * r.flags.N

\* RegisterFile::reset
RegsReset ==
    [PC |-> 0, A |-> 0, X |-> 0, Y |-> 0, SP |-> 0,
     flags |-> [C |-> 0, Z |-> 0, I |-> 0, D |-> 0, V |-> 0, N |-> 0]]

----------------------------------------------------------------------------
(* The addressing-mode decoder.  An access is [w, val]: the bus after the  *)
(* reads made so far and the uint16_t value they produced.                  *)

Val(w, v) == [w |-> w, val |-> U16(v)]

\* mem.read(index + ll + (hh << 8)): the read at the address the access p
\* produced, plus an index register
ReadAt(p, index) == read(p.w, index + p.val)

\* uint8_t addr = mem.read(regs.PC + 1) + index; mem.read(addr)
ReadZpg(b, index) == read(b.w, U8(b.val + index))

\* ZpgWord with the high pointer byte read one past the low one, unmasked
ZpgWord_crossing(b, index) ==
    ReadWord(b.w, BitAnd(b.val + index, 255), BitAnd(b.val + index, 255) + 1)

\* The pointer in the zero page at (b + index) & 0xff and (b + index + 1) & 0xff
ZpgWord(b, index) ==
    ReadWord(b.w, BitAnd(b.val + index, 255), BitAnd(b.val + index + 1, 255))

\* Indexed with the index added inside the page of the base
Indexed_in_page(p, index) ==
    Val(p.w, (p.val \div 256) * 256 + ((p.val + index) % 256))

\* (index + ll + (hh << 8)) & 0xffff
Indexed(p, index) == Val(p.w, BitAnd(index + p.val, 65535))

\* (mem.read(regs.PC + 1) + index) & 0xff
IndexedZpg(b, index) == Val(b.w, BitAnd(b.val + index, 255))

\* regs.PC + int8_t(mem.read(regs.PC + 1))
Relative(r, b) == Val(b.w, r.PC + int8_t(b.val))

\* effective_address(regs, mem, mode)
effective_address(r, w, mode) ==
    CASE mode = "ABS" -> ReadWord(w, r.PC + 1, r.PC + 2)
      [] mode = "ABS_X" -> Indexed(ReadWord(w, r.PC + 1, r.PC + 2), r.X)
      [] mode = "ABS_Y" -> Indexed(ReadWord(w, r.PC + 1, r.PC + 2), r.Y)
      [] mode = "X_IND" -> ZpgWord(read(w, r.PC + 1), r.X)
      [] mode = "IND_Y" -> Indexed(ZpgWord(read(w, r.PC + 1), 0), r.Y)
      [] mode = "ZPG" -> read(w, r.PC + 1)
      [] mode = "ZPG_X" -> IndexedZpg(read(w, r.PC + 1), r.X)
      [] mode = "ZPG_Y" -> IndexedZpg(read(w, r.PC + 1), r.Y)
      [] OTHER -> Val(w, 0)

\* Mutant of operand: the operand byte is taken from ram[] instead of read()
operand_unrouted(r, w, mode) ==
    CASE mode = "ACCUMULATOR" -> Val(w, r.A)
      [] mode = "IMMEDIATE" -> read(w, r.PC + 1)
      [] mode = "IMPLIED" -> Val(w, 0)
      [] mode = "REL" -> Relative(r, read(w, r.PC + 1))
      [] OTHER -> Val(effective_address(r, w, mode).w,
                      RamAt(w.ram, effective_address(r, w, mode).val))

\* operand(regs, mem, mode)
operand(r, w, mode) ==
    CASE mode = "ACCUMULATOR" -> Val(w, r.A)
      [] mode = "ABS" -> ReadAt(ReadWord(w, r.PC + 1, r.PC + 2), 0)
      [] mode = "ABS_X" -> ReadAt(ReadWord(w, r.PC + 1, r.PC + 2), r.X)
      [] mode = "ABS_Y" -> ReadAt(ReadWord(w, r.PC + 1, r.PC + 2), r.Y)
      [] mode = "IMMEDIATE" -> read(w, r.PC + 1)
      [] mode = "IMPLIED" -> Val(w, 0)
      [] mode = "INDIRECT" -> ReadAt(ReadWord(w, r.PC + 1, r.PC + 2), 0)
      [] mode = "X_IND" -> ReadAt(ZpgWord(read(w, r.PC + 1), r.X), 0)
      [] mode = "IND_Y" -> ReadAt(ZpgWord(read(w, r.PC + 1), 0), r.Y)
      [] mode = "REL" -> Relative(r, read(w, r.PC + 1))
      [] mode = "ZPG" -> ReadZpg(read(w, r.PC + 1), 0)
      [] mode = "ZPG_X" -> ReadZpg(read(w, r.PC + 1), r.X)
      [] mode = "ZPG_Y" -> ReadZpg(read(w, r.PC + 1), r.Y)
      [] OTHER -> Val(w, 0)

----------------------------------------------------------------------------
(* The stack helpers.  A machine state m is [regs, w].                      *)

\* Mutant of pop8: the incremented stack pointer is not reduced to a byte
pop8_unwrapped(r, w) ==
    LET sp == r.SP + 1
        b  == read(w, 256 + sp)
    IN  [regs |-> [r EXCEPT !.SP = sp], w |-> b.w, val |-> b.val]

\* pop8: ++regs.SP; return mem.read(0x100 | regs.SP)
pop8(r, w) ==
    LET sp == U8(r.SP + 1)
        b  == read(w, BitOr(256, sp))
    IN  [regs |-> [r EXCEPT !.SP = sp], w |-> b.w, val |-> b.val]

\* pop16: low byte, then high byte
pop16(r, w) ==
    LET ll == pop8(r, w)
        hh == pop8(ll.regs, ll.w)
    IN  [regs |-> hh.regs, w |-> hh.w, val |-> BitOr(ll.val, hh.val * 256)]

\* push8: mem.write(0x100 | regs.SP, val); --regs.SP
push8(r, w, val) ==
    [regs |-> [r EXCEPT !.SP = U8(r.SP - 1)],
     w |-> write(w, BitOr(256, r.SP), U8(val))]

\* push16: high byte first, then low byte
push16(r, w, val) ==
    LET v  == U16(val)
        hi == push8(r, w, BitAnd(v \div 256, 255))
    IN  push8(hi.regs, hi.w, BitAnd(v, 255))

\* push_status
push_status(r, w, breakp) == push8(r, w, read_flags(r, breakp))

\* set_flags with Z taken from the accumulator before the instruction
set_flags_zero_of_old(r, oldA, newA, mask) ==
    LET r1 == IF "N" \in mask THEN [r EXCEPT !.flags.N = newA \div 128] ELSE r
        r2 == IF "Z" \in mask THEN [r1 EXCEPT !.flags.Z = Bool(oldA = 0)] ELSE r1
    IN  IF "C" \in mask THEN [r2 EXCEPT !.flags.C = oldA \div 128] ELSE r2

\* set_flags(regs, oldA, newA, mask)
set_flags(r, oldA, newA, mask) ==
    LET r1 == IF "N" \in mask THEN [r EXCEPT !.flags.N = newA \div 128] ELSE r
        r2 == IF "Z" \in mask THEN [r1 EXCEPT !.flags.Z = Bool(newA = 0)] ELSE r1
    IN  IF "C" \in mask THEN [r2 EXCEPT !.flags.C = oldA \div 128] ELSE r2

----------------------------------------------------------------------------
(* Opcode implementations.  Each returns the registers and the bus as the   *)
(* handler leaves them, the uint16_t it returns (the new PC), and whether   *)
(* it ended in abort().  A handler that begins with operand(regs, mem,      *)
(* mode) or effective_address(regs, mem, mode) is given that access as its  *)
(* argument o or e by the switch of execute_opcode, in place of the bus.    *)

Ret(r, w, pc) == [regs |-> r, w |-> w, ret |-> U16(pc), abort |-> FALSE]

InstrLen(mode) == addressing_mode_to_length(mode)

\* FromStatus with each flag taken as the masked byte, not shifted down
FromStatus_unshifted(r, status) ==
    [r EXCEPT !.flags = [C |-> BitAnd(status, 1), Z |-> BitAnd(status, 2),
                         I |-> BitAnd(status, 4), D |-> BitAnd(status, 8),
                         V |-> BitAnd(status, 64), N |-> BitAnd(status, 128)]]

\* The six flags as a status byte sets them (op_RTI, op_PLP)
FromStatus(r, status) ==
    [r EXCEPT !.flags = [C |-> Bit(status, 0), Z |-> Bit(status, 1),
                         I |-> Bit(status, 2), D |-> Bit(status, 3),
                         V |-> Bit(status, 6), N |-> Bit(status, 7)]]

\* regs.flags.N = (val >> 7) & 1; regs.flags.Z = (val == 0)
WithNZ(r, val) == [r EXCEPT !.flags.N = Bit(val, 7), !.flags.Z = Bool(val = 0)]

\* The handler returns the word the access p produced
Jump(r, p) == Ret(r, p.w, p.val)

\* status pushed after the return address, then the vector at 0xfffe is read
PushStatusAndVector(p) ==
    LET s == push_status(p.regs, p.w, TRUE)
    IN  Jump(s.regs, read16(s.w, 65534))

op_BRK(r, w, mode) == PushStatusAndVector(push16(r, w, r.PC + 2))

op_ORA(r, o, mode) ==
    Ret([r EXCEPT !.A = U8(BitOr(r.A, o.val))], o.w, r.PC + InstrLen(mode))

op_AND(r, o, mode) ==
    Ret([r EXCEPT !.A = U8(BitAnd(r.A, o.val))], o.w, r.PC + InstrLen(mode))

op_EOR(r, o, mode) ==
    Ret([r EXCEPT !.A = U8(BitXor(r.A, o.val))], o.w, r.PC + InstrLen(mode))

\* Mutant of op_ADC: the carry flag is not added in
op_ADC_carry_dropped(r, o, mode) ==
    LET m   == U8(o.val)
        a   == r.A
        sum == U16(a + m)
        v   == Bool(BitAnd(BitAnd(BitXor(a, sum), BitXor(m, sum)), 128) # 0)
        c   == Bool(sum > 255)
        na  == BitAnd(sum, 255)
    IN  Ret([r EXCEPT !.flags.V = v, !.flags.C = c, !.A = na,
                      !.flags.N = Bit(na, 7), !.flags.Z = Bool(na = 0)],
            o.w, r.PC + InstrLen(mode))

op_ADC(r, o, mode) ==
    LET m   == U8(o.val)
        a   == r.A
        sum == U16(a + m + r.flags.C)
        v   == Bool(BitAnd(BitAnd(BitXor(a, sum), BitXor(m, sum)), 128) # 0)
        c   == Bool(sum > 255)
        na  == BitAnd(sum, 255)
    IN  Ret([r EXCEPT !.flags.V = v, !.flags.C = c, !.A = na,
                      !.flags.N = Bit(na, 7), !.flags.Z = Bool(na = 0)],
            o.w, r.PC + InstrLen(mode))

\* op_SBC subtracting the carry instead of the borrow it stands for
op_SBC_carry_as_borrow(r, o, mode) ==
    LET m     == U8(o.val)
        a     == r.A
        diff  == U16(a + BitXor(m, 255) + 1 - r.flags.C)
        m_inv == BitXor(m, 255)
        v     == Bool(BitAnd(BitAnd(BitXor(a, diff), BitXor(m_inv, diff)), 128) # 0)
        c     == Bool(diff > 255)
        na    == BitAnd(diff, 255)
    IN  Ret([r EXCEPT !.flags.V = v, !.flags.C = c, !.A = na,
                      !.flags.N = Bit(na, 7), !.flags.Z = Bool(na = 0)],
            o.w, r.PC + InstrLen(mode))

\* op_SBC with the carry reporting a borrow instead of its absence
op_SBC_borrow_flag(r, o, mode) ==
    LET m     == U8(o.val)
        a     == r.A
        diff  == U16(a + BitXor(m, 255) + r.flags.C)
        m_inv == BitXor(m, 255)
        v     == Bool(BitAnd(BitAnd(BitXor(a, diff), BitXor(m_inv, diff)), 128) # 0)
        c     == Bool(diff <= 255)
        na    == BitAnd(diff, 255)
    IN  Ret([r EXCEPT !.flags.V = v, !.flags.C = c, !.A = na,
                      !.flags.N = Bit(na, 7), !.flags.Z = Bool(na = 0)],
            o.w, r.PC + InstrLen(mode))

op_SBC(r, o, mode) ==
    LET m     == U8(o.val)
        a     == r.A
        diff  == U16(a + BitXor(m, 255) + r.flags.C)
        m_inv == BitXor(m, 255)
        v     == Bool(BitAnd(BitAnd(BitXor(a, diff), BitXor(m_inv, diff)), 128) # 0)
        c     == Bool(diff > 255)
        na    == BitAnd(diff, 255)
    IN  Ret([r EXCEPT !.flags.V = v, !.flags.C = c, !.A = na,
                      !.flags.N = Bit(na, 7), !.flags.Z = Bool(na = 0)],
            o.w, r.PC + InstrLen(mode))

\* The handler returns the word the machine access p produced, plus offset
Return(p, offset) == Ret(p.regs, p.w, p.val + offset)

\* op_RTI adding 1 to the pulled word, as op_RTS does
op_RTI_like_RTS(r, w, mode) ==
    LET s == pop8(r, w)
    IN  Return(pop16(FromStatus(s.regs, s.val), s.w), 1)

op_RTI(r, w, mode) ==
    LET s == pop8(r, w)
    IN  Return(pop16(FromStatus(s.regs, s.val), s.w), 0)

op_LDA(r, o, mode) ==
    Ret([r EXCEPT !.A = U8(o.val)], o.w, r.PC + InstrLen(mode))

op_LDX(r, o, mode) ==
    Ret(WithNZ([r EXCEPT !.X = U8(o.val)], U8(o.val)), o.w, r.PC + InstrLen(mode))

op_LDY(r, o, mode) ==
    Ret(WithNZ([r EXCEPT !.Y = U8(o.val)], U8(o.val)), o.w, r.PC + InstrLen(mode))

\* op_STA storing straight into ram, past the page table
op_STA_unrouted(r, e, mode) ==
    Ret(r, IndexSet(e.w, e.val, r.A), r.PC + InstrLen(mode))

op_STA(r, e, mode) ==
    Ret(r, write(e.w, e.val, r.A), r.PC + InstrLen(mode))

op_STX(r, e, mode) ==
    Ret(r, write(e.w, e.val, r.X), r.PC + InstrLen(mode))

op_STY(r, e, mode) ==
    Ret(r, write(e.w, e.val, r.Y), r.PC + InstrLen(mode))

\* compare with the carry set only when reg is strictly greater
compare_strict(r, reg, m) ==
    LET result == U16(reg - m)
    IN  [r EXCEPT !.flags.C = Bool(reg > m), !.flags.Z = Bool(reg = m),
                  !.flags.N = Bit(result, 7)]

\* compare(regs, reg, m): uint16_t result = reg - m
compare(r, reg, m) ==
    LET result == U16(reg - m)
    IN  [r EXCEPT !.flags.C = Bool(reg >= m), !.flags.Z = Bool(reg = m),
                  !.flags.N = Bit(result, 7)]

op_CMP(r, o, mode) ==
    Ret(compare(r, r.A, U8(o.val)), o.w, r.PC + InstrLen(mode))

op_CPX(r, o, mode) ==
    Ret(compare(r, r.X, U8(o.val)), o.w, r.PC + InstrLen(mode))

op_CPY(r, o, mode) ==
    Ret(compare(r, r.Y, U8(o.val)), o.w, r.PC + InstrLen(mode))

op_PHA(r, w, mode) ==
    LET p == push8(r, w, r.A)
    IN  Ret(p.regs, p.w, r.PC + 1)

\* op_PHP pushing the status with the break bit clear
op_PHP_break_clear(r, w, mode) ==
    LET p == push_status(r, w, FALSE)
    IN  Ret(p.regs, p.w, r.PC + 1)

op_PHP(r, w, mode) ==
    LET p == push_status(r, w, TRUE)
    IN  Ret(p.regs, p.w, r.PC + 1)

\* op_PLA without the N and Z assignments
op_PLA_keeps_flags(r, w, mode) ==
    LET p == pop8(r, w)
    IN  Ret([p.regs EXCEPT !.A = p.val], p.w, r.PC + 1)

op_PLA(r, w, mode) ==
    LET p == pop8(r, w)
    IN  Ret(WithNZ([p.regs EXCEPT !.A = p.val], p.val), p.w, r.PC + 1)

\* op_PLP that pulls the byte and leaves the flags as they were
op_PLP_keeps_flags(r, w, mode) ==
    LET p == pop8(r, w)
    IN  Ret(p.regs, p.w, r.PC + 1)

op_PLP(r, w, mode) ==
    LET p == pop8(r, w)
    IN  Ret(FromStatus(p.regs, p.val), p.w, r.PC + 1)

\* op_BIT with V taken from bit 7 of the operand, like N
op_BIT_overflow_from_sign(r, o, mode) ==
    LET m == U8(o.val)
    IN  Ret([r EXCEPT !.flags.Z = Bool(BitAnd(r.A, m) = 0),
                      !.flags.N = Bit(m, 7), !.flags.V = Bit(m, 7)],
            o.w, r.PC + InstrLen(mode))

op_BIT(r, o, mode) ==
    LET m == U8(o.val)
    IN  Ret([r EXCEPT !.flags.Z = Bool(BitAnd(r.A, m) = 0),
                      !.flags.N = Bit(m, 7), !.flags.V = Bit(m, 6)],
            o.w, r.PC + InstrLen(mode))

op_NOP(r, w, mode) == Ret(r, w, r.PC + 1)

op_TAX(r, w, mode) == Ret(WithNZ([r EXCEPT !.X = r.A], r.A), w, r.PC + 1)

op_TAY(r, w, mode) == Ret(WithNZ([r EXCEPT !.Y = r.A], r.A), w, r.PC + 1)

op_TXA(r, w, mode) == Ret(WithNZ([r EXCEPT !.A = r.X], r.X), w, r.PC + 1)

op_TYA(r, w, mode) == Ret(WithNZ([r EXCEPT !.A = r.Y], r.Y), w, r.PC + 1)

op_TSX(r, w, mode) == Ret(WithNZ([r EXCEPT !.X = r.SP], r.SP), w, r.PC + 1)

\* op_TXS setting N and Z from the value moved, as the other transfers do
op_TXS_sets_flags(r, w, mode) == Ret(WithNZ([r EXCEPT !.SP = r.X], r.X), w, r.PC + 1)

op_TXS(r, w, mode) == Ret([r EXCEPT !.SP = r.X], w, r.PC + 1)

op_CLC(r, w, mode) == Ret([r EXCEPT !.flags.C = 0], w, r.PC + 1)

op_CLD(r, w, mode) == Ret([r EXCEPT !.flags.D = 0], w, r.PC + 1)

op_CLI(r, w, mode) == Ret([r EXCEPT !.flags.I = 0], w, r.PC + 1)

\* op_CLV clearing the carry along with the overflow flag
op_CLV_clears_carry(r, w, mode) ==
    Ret([r EXCEPT !.flags.V = 0, !.flags.C = 0], w, r.PC + 1)

op_CLV(r, w, mode) == Ret([r EXCEPT !.flags.V = 0], w, r.PC + 1)

op_SEC(r, w, mode) == Ret([r EXCEPT !.flags.C = 1], w, r.PC + 1)

op_SED(r, w, mode) == Ret([r EXCEPT !.flags.D = 1], w, r.PC + 1)

op_SEI(r, w, mode) == Ret([r EXCEPT !.flags.I = 1], w, r.PC + 1)

\* op_INC writing the old byte back before the new one
op_INC_dummy_write(r, e, mode) ==
    LET old == read(e.w, e.val)
        val == U8(old.val + 1)
    IN  Ret(WithNZ(r, val), write(write(old.w, e.val, old.val), e.val, val),
            r.PC + InstrLen(mode))

op_INC(r, e, mode) ==
    LET old == read(e.w, e.val)
        val == U8(old.val + 1)
    IN  Ret(WithNZ(r, val), write(old.w, e.val, val), r.PC + InstrLen(mode))

\* op_DEC with N and Z taken from the byte before the decrement
op_DEC_flags_of_old(r, e, mode) ==
    LET old == read(e.w, e.val)
        val == U8(old.val - 1)
    IN  Ret(WithNZ(r, old.val), write(old.w, e.val, val), r.PC + InstrLen(mode))

op_DEC(r, e, mode) ==
    LET old == read(e.w, e.val)
        val == U8(old.val - 1)
    IN  Ret(WithNZ(r, val), write(old.w, e.val, val), r.PC + InstrLen(mode))

op_INX(r, w, mode) ==
    LET val == U8(r.X + 1)
    IN  Ret(WithNZ([r EXCEPT !.X = val], val), w, r.PC + 1)

op_INY(r, w, mode) ==
    LET val == U8(r.Y + 1)
    IN  Ret(WithNZ([r EXCEPT !.Y = val], val), w, r.PC + 1)

op_DEX(r, w, mode) ==
    LET val == U8(r.X - 1)
    IN  Ret(WithNZ([r EXCEPT !.X = val], val), w, r.PC + 1)

\* op_DEY without the N and Z assignments
op_DEY_keeps_flags(r, w, mode) == Ret([r EXCEPT !.Y = U8(r.Y - 1)], w, r.PC + 1)

op_DEY(r, w, mode) ==
    LET val == U8(r.Y - 1)
    IN  Ret(WithNZ([r EXCEPT !.Y = val], val), w, r.PC + 1)

\* branch_target: the offset byte is read only when the branch is taken
\* branch_target measuring the offset from the branch instead of from PC + 2
branch_target_from_branch(r, w) ==
    LET b == read(w, r.PC + 1)
    IN  Ret(r, b.w, BitAnd(r.PC + int8_t(b.val), 65535))

branch_target(r, w) ==
    LET b == read(w, r.PC + 1)
    IN  Ret(r, b.w, BitAnd(r.PC + 2 + int8_t(b.val), 65535))

op_BCC(r, w, mode) ==
    IF r.flags.C = 0 THEN branch_target(r, w) ELSE Ret(r, w, r.PC + 2)

op_BCS(r, w, mode) ==
    IF r.flags.C = 1 THEN branch_target(r, w) ELSE Ret(r, w, r.PC + 2)

op_BEQ(r, w, mode) ==
    IF r.flags.Z = 1 THEN branch_target(r, w) ELSE Ret(r, w, r.PC + 2)

op_BMI(r, w, mode) ==
    IF r.flags.N = 1 THEN branch_target(r, w) ELSE Ret(r, w, r.PC + 2)

op_BNE(r, w, mode) ==
    IF r.flags.Z = 0 THEN branch_target(r, w) ELSE Ret(r, w, r.PC + 2)

op_BPL(r, w, mode) ==
    IF r.flags.N = 0 THEN branch_target(r, w) ELSE Ret(r, w, r.PC + 2)

op_BVC(r, w, mode) ==
    IF r.flags.V = 0 THEN branch_target(r, w) ELSE Ret(r, w, r.PC + 2)

op_BVS(r, w, mode) ==
    IF r.flags.V = 1 THEN branch_target(r, w) ELSE Ret(r, w, r.PC + 2)

\* IndirectWord taking the high byte from ptr + 1, across the page boundary
IndirectWord_carrying(ptr) ==
    ReadWord(ptr.w, ptr.val, BitAnd(ptr.val + 1, 65535))

\* ll = mem.read(ptr); hh = mem.read((ptr & 0xff00) | ((ptr + 1) & 0x00ff))
IndirectWord(ptr) ==
    ReadWord(ptr.w, ptr.val, BitOr(BitAnd(ptr.val, 65280), BitAnd(ptr.val + 1, 255)))

op_JMP(r, w, mode) ==
    IF mode = "ABS" THEN Jump(r, ReadWord(w, r.PC + 1, r.PC + 2))
    ELSE IF mode = "INDIRECT"
    THEN Jump(r, IndirectWord(ReadWord(w, r.PC + 1, r.PC + 2)))
    ELSE [Ret(r, w, 0) EXCEPT !.abort = TRUE]

\* The target bytes are read after the return address is pushed
JumpAfterPush(r, p) == Jump(p.regs, ReadWord(p.w, r.PC + 1, r.PC + 2))

\* op_JSR: the return address is pushed before the target bytes are read
op_JSR(r, w, mode) == JumpAfterPush(r, push16(r, w, r.PC + 2))

op_RTS(r, w, mode) == Return(pop16(r, w), 1)

\* The body shared by the four shifts: the target is A in ACCUMULATOR mode
\* and the byte at the effective address otherwise
ShiftTarget(r, w, e, mode) ==
    IF mode = "ACCUMULATOR" THEN [w |-> w, ea |-> 0, old |-> r.A]
    ELSE LET old == read(e.w, e.val)
         IN  [w |-> old.w, ea |-> e.val, old |-> old.val]

\* ShiftStore writing the accumulator in every mode
ShiftStore_accumulator_only(r, t, mode, new_val) ==
    [regs |-> [r EXCEPT !.A = new_val], w |-> t.w]

ShiftStore(r, t, mode, new_val) ==
    IF mode = "ACCUMULATOR" THEN [regs |-> [r EXCEPT !.A = new_val], w |-> t.w]
    ELSE [regs |-> r, w |-> write(t.w, t.ea, new_val)]

op_ASL(r, t, mode) ==
    LET new_val == U8(t.old * 2)
        s       == ShiftStore(r, t, mode, new_val)
    IN  Ret([s.regs EXCEPT !.flags.C = Bit(t.old, 7), !.flags.N = Bit(new_val, 7),
                           !.flags.Z = Bool(new_val = 0)],
            s.w, r.PC + InstrLen(mode))

op_LSR(r, t, mode) ==
    LET new_val == t.old \div 2
        s       == ShiftStore(r, t, mode, new_val)
    IN  Ret([s.regs EXCEPT !.flags.C = BitAnd(t.old, 1), !.flags.N = 0,
                           !.flags.Z = Bool(new_val = 0)],
            s.w, r.PC + InstrLen(mode))

op_ROL(r, t, mode) ==
    LET old_carry == r.flags.C
        new_val   == U8(BitOr(t.old * 2, old_carry))
        s         == ShiftStore(r, t, mode, new_val)
    IN  Ret([s.regs EXCEPT !.flags.C = Bit(t.old, 7), !.flags.N = Bit(new_val, 7),
                           !.flags.Z = Bool(new_val = 0)],
            s.w, r.PC + InstrLen(mode))

op_ROR(r, t, mode) ==
    LET old_carry == r.flags.C
        new_val   == U8(BitOr(t.old \div 2, old_carry * 128))
        s         == ShiftStore(r, t, mode, new_val)
    IN  Ret([s.regs EXCEPT !.flags.C = BitAnd(t.old, 1), !.flags.N = Bit(new_val, 7),
                           !.flags.Z = Bool(new_val = 0)],
            s.w, r.PC + InstrLen(mode))

\* The switch of execute_opcode; o is operand(regs, mem, mode) and e is
\* effective_address(regs, mem, mode), for the handlers that begin with them
Handler(mnem, r, w, mode, o, e) ==
    CASE mnem = "BRK" -> op_BRK(r, w, mode)
      [] mnem = "ORA" -> op_ORA(r, o, mode)
      [] mnem = "AND" -> op_AND(r, o, mode)
      [] mnem = "EOR" -> op_EOR(r, o, mode)
      [] mnem = "ADC" -> op_ADC(r, o, mode)
      [] mnem = "SBC" -> op_SBC(r, o, mode)
      [] mnem = "ASL" -> op_ASL(r, ShiftTarget(r, w, e, mode), mode)
      [] mnem = "LSR" -> op_LSR(r, ShiftTarget(r, w, e, mode), mode)
      [] mnem = "ROL" -> op_ROL(r, ShiftTarget(r, w, e, mode), mode)
      [] mnem = "ROR" -> op_ROR(r, ShiftTarget(r, w, e, mode), mode)
      [] mnem = "RTI" -> op_RTI(r, w, mode)
      [] mnem = "JMP" -> op_JMP(r, w, mode)
      [] mnem = "JSR" -> op_JSR(r, w, mode)
      [] mnem = "RTS" -> op_RTS(r, w, mode)
      [] mnem = "LDA" -> op_LDA(r, o, mode)
      [] mnem = "LDX" -> op_LDX(r, o, mode)
      [] mnem = "LDY" -> op_LDY(r, o, mode)
      [] mnem = "STA" -> op_STA(r, e, mode)
      [] mnem = "STX" -> op_STX(r, e, mode)
      [] mnem = "STY" -> op_STY(r, e, mode)
      [] mnem = "BCC" -> op_BCC(r, w, mode)
      [] mnem = "BCS" -> op_BCS(r, w, mode)
      [] mnem = "BEQ" -> op_BEQ(r, w, mode)
      [] mnem = "BMI" -> op_BMI(r, w, mode)
      [] mnem = "BNE" -> op_BNE(r, w, mode)
      [] mnem = "BPL" -> op_BPL(r, w, mode)
      [] mnem = "BVC" -> op_BVC(r, w, mode)
      [] mnem = "BVS" -> op_BVS(r, w, mode)
      [] mnem = "INC" -> op_INC(r, e, mode)
      [] mnem = "DEC" -> op_DEC(r, e, mode)
      [] mnem = "INX" -> op_INX(r, w, mode)
      [] mnem = "INY" -> op_INY(r, w, mode)
      [] mnem = "DEX" -> op_DEX(r, w, mode)
      [] mnem = "DEY" -> op_DEY(r, w, mode)
      [] mnem = "CLC" -> op_CLC(r, w, mode)
      [] mnem = "CLD" -> op_CLD(r, w, mode)
      [] mnem = "CLI" -> op_CLI(r, w, mode)
      [] mnem = "CLV" -> op_CLV(r, w, mode)
      [] mnem = "SEC" -> op_SEC(r, w, mode)
      [] mnem = "SED" -> op_SED(r, w, mode)
      [] mnem = "SEI" -> op_SEI(r, w, mode)
      [] mnem = "TAX" -> op_TAX(r, w, mode)
      [] mnem = "TAY" -> op_TAY(r, w, mode)
      [] mnem = "TXA" -> op_TXA(r, w, mode)
      [] mnem = "TYA" -> op_TYA(r, w, mode)
      [] mnem = "TSX" -> op_TSX(r, w, mode)
      [] mnem = "TXS" -> op_TXS(r, w, mode)
      [] mnem = "CMP" -> op_CMP(r, o, mode)
      [] mnem = "CPX" -> op_CPX(r, o, mode)
      [] mnem = "CPY" -> op_CPY(r, o, mode)
      [] mnem = "PHA" -> op_PHA(r, w, mode)
      [] mnem = "PHP" -> op_PHP(r, w, mode)
      [] mnem = "PLA" -> op_PLA(r, w, mode)
      [] mnem = "PLP" -> op_PLP(r, w, mode)
      [] mnem = "BIT" -> op_BIT(r, o, mode)
      [] mnem = "NOP" -> op_NOP(r, w, mode)
      [] OTHER -> [Ret(r, w, 0) EXCEPT !.abort = TRUE]

\* After the switch: the handler's return value becomes PC, then set_flags
\* runs with the accumulator before and after and the mnemonic's mask
AfterHandler(opcode, oldA, h) ==
    IF h.abort THEN [regs |-> h.regs, w |-> h.w, abort |-> TRUE]
    ELSE [regs |-> set_flags([h.regs EXCEPT !.PC = h.ret], oldA, h.regs.A,
                             instrs_to_flags(opcode.mnem)),
          w |-> h.w, abort |-> FALSE]

\* execute_opcode
execute_opcode(opcode, r, w) ==
    AfterHandler(opcode, r.A,
                 Handler(opcode.mnem, r, w, opcode.mode, operand(r, w, opcode.mode),
                         effective_address(r, w, opcode.mode)))

\* The opcode byte run_instr decodes: mem[regs.PC], Bus::operator[]
fetch(r, w) == IndexGet(w, r.PC)

\* run_instr
run_instr(r, w) ==
    LET opcode == byte_to_opcode(fetch(r, w))
    IN  IF opcode = NOT_REACHED THEN [regs |-> r, w |-> w, abort |-> TRUE]
        ELSE execute_opcode(opcode, r, w)

----------------------------------------------------------------------------
(* The assembler helper.                                                    *)

\* assemble_instr: the OPCODE() expansion tests the mnemonic only, so the first
\* record of the list with that mnemonic supplies the opcode byte; the number of
\* bytes stored is the length of the requested mode.  OPCODES() lists the
\* records of opcodeTable in the same order.
assemble_instr(mnem, mode, dir16) ==
    LET len  == addressing_mode_to_length(mode)
        hits == {i \in DOMAIN opcodeTable : opcodeTable[i].mnem = mnem}
        op   == FirstOf(hits)
        b0   == <<op.byte>>
        b1   == IF len > 1 THEN Append(b0, BitAnd(dir16, 255)) ELSE b0
        b2   == IF len > 1 /\ len = 3
                THEN Append(b1, BitAnd(dir16, 65280) \div 256) ELSE b1
    IN  IF op = NOT_REACHED THEN [abort |-> TRUE, bytes |-> <<>>, len |-> 0]
        ELSE [abort |-> FALSE, bytes |-> b2, len |-> len]

\* The stores *destination++ = ... made through &mem_[org_]: byte i lands at
\* ram + org_ + i, inside the array when org_ + i < 65536
StoreBytes(r, at, bytes) ==
    LET inside == {i \in DOMAIN bytes : at + i - 1 < 65536}
        Stored(a) == \E i \in inside : at + i - 1 = a
        ByteFor(a) == bytes[CHOOSE i \in inside : at + i - 1 = a]
        keep == {a \in DOMAIN r : ~Stored(a)}
        new  == {at + i - 1 : i \in {j \in inside : bytes[j] # 0}}
    IN  [a \in keep \cup new |-> IF Stored(a) THEN ByteFor(a) ELSE r[a]]

\* The stores of the same call that land past the end of ram
StoresOutside(at, bytes) ==
    {[addr |-> at + i - 1, val |-> bytes[i]] : i \in {j \in DOMAIN bytes : at + j - 1 >= 65536}}

----------------------------------------------------------------------------
(* The harness: what a caller of the library does.                          *)

MaxOps == 3

TestPages == {192, 255}

TestAddrs == {80, 49168, 65535}

TestVals == {85}

\* Two TestDevice objects with different read_val
NewDevice(d) ==
    [read_val |-> IF d = 1 THEN 66 ELSE 171, read_count |-> 0, write_count |-> 0,
     last_write_addr_lo |-> 0, last_write_val |-> 0]

EmptyRam == [a \in {} |-> 0]

Snapshot == [ram |-> ram, page_device |-> page_device, dev |-> dev,
             regs |-> regs, org_ |-> org_]

\* The state after construction: Bus and RegisterFile reset, the assembler at
\* origin 0, the devices untouched
Init ==
    /\ ram = EmptyRam
    /\ page_device = [p \in {} |-> 0]
    /\ dev = [d \in DevIds |-> NewDevice(d)]
    /\ regs = RegsReset
    /\ org_ = 0
    /\ aborted = FALSE
    /\ oob = {}
    /\ labels_ = [n \in {} |-> 0]
    /\ trace = <<>>
    /\ last = [op |-> "init"]
    /\ nops = 0

\* The bus fields, the devices and the access log after a bus operation
Commit(w) ==
    /\ ram' = w.ram
    /\ page_device' = w.page_device
    /\ dev' = w.dev
    /\ trace' = w.trace

Running == ~aborted /\ nops < MaxOps

DoMap(page, d) ==
    /\ Running
    /\ Commit(map(World, page, d))
    /\ last' = [op |-> "map", page |-> page, d |-> d, pre |-> Snapshot]
    /\ nops' = nops + 1
    /\ UNCHANGED <<regs, org_, aborted, oob, labels_>>

DoMapRange(lo, hi, d) ==
    /\ Running
    /\ Commit(mapRange(World, lo, hi, d))
    /\ last' = [op |-> "mapRange", lo |-> lo, hi |-> hi, d |-> d, pre |-> Snapshot]
    /\ nops' = nops + 1
    /\ UNCHANGED <<regs, org_, aborted, oob, labels_>>

DoRead(addr) ==
    /\ Running
    /\ LET res == read(World, addr)
       IN  /\ Commit(res.w)
           /\ last' = [op |-> "read", addr |-> addr, ret |-> res.val, pre |-> Snapshot]
    /\ nops' = nops + 1
    /\ UNCHANGED <<regs, org_, aborted, oob, labels_>>

DoWrite(addr, val) ==
    /\ Running
    /\ Commit(write(World, addr, val))
    /\ last' = [op |-> "write", addr |-> addr, val |-> val, pre |-> Snapshot]
    /\ nops' = nops + 1
    /\ UNCHANGED <<regs, org_, aborted, oob, labels_>>

DoIndexGet(addr) ==
    /\ Running
    /\ Commit(World)
    /\ last' = [op |-> "index_get", addr |-> addr, ret |-> IndexGet(World, addr),
                pre |-> Snapshot]
    /\ nops' = nops + 1
    /\ UNCHANGED <<regs, org_, aborted, oob, labels_>>

DoIndexSet(addr, val) ==
    /\ Running
    /\ Commit(IndexSet(World, addr, val))
    /\ last' = [op |-> "index_set", addr |-> addr, val |-> val, pre |-> Snapshot]
    /\ nops' = nops + 1
    /\ UNCHANGED <<regs, org_, aborted, oob, labels_>>

DoReset ==
    /\ Running
    /\ Commit(BusReset(World))
    /\ last' = [op |-> "reset", pre |-> Snapshot]
    /\ nops' = nops + 1
    /\ UNCHANGED <<regs, org_, aborted, oob, labels_>>

NextBus ==
    \/ \E page \in TestPages, d \in {0} \cup DevIds : DoMap(page, d)
    \/ \E lo \in TestPages, hi \in TestPages, d \in DevIds : DoMapRange(lo, hi, d)
    \/ \E a \in TestAddrs : DoRead(a)
    \/ \E a \in TestAddrs, v \in TestVals : DoWrite(a, v)
    \/ \E a \in TestAddrs : DoIndexGet(a)
    \/ \E a \in TestAddrs, v \in TestVals : DoIndexSet(a, v)
    \/ DoReset

SpecBus == Init /\ [][NextBus]_vars

----------------------------------------------------------------------------
(* Properties of the bus.                                                   *)

\* The RAM bytes that differ between two RAM contents
RamDiff(r1, r2) == {a \in (DOMAIN r1) \cup (DOMAIN r2) : RamAt(r1, a) # RamAt(r2, a)}

\* The device calls among the logged accesses
DeviceCalls(t) == SelectSeq(t, LAMBDA e : e.dev # 0)

\* C1: Bus::read(a) returns the mapped device's read(a), called once with the
\* full 16-bit address, when page a>>8 is mapped, and RAM[a] otherwise, without
\* any device call; Bus::write(a,v) calls the mapped device's write(a,v) and
\* leaves RAM unchanged when the page is mapped, and otherwise sets RAM[a]=v,
\* changes no other byte and invokes no device.
C1_RoutedReadWrite ==
    /\ last.op = "read" =>
          LET a == last.addr
              d == PageAt(last.pre.page_device, a \div 256)
          IN  /\ ram = last.pre.ram
              /\ IF d # 0
                 THEN /\ last.ret = last.pre.dev[d].read_val
                      /\ DeviceCalls(trace) =
                            <<[op |-> "r", addr |-> a, val |-> last.ret, dev |-> d]>>
                      /\ dev[d].read_count = last.pre.dev[d].read_count + 1
                      /\ dev[d].write_count = last.pre.dev[d].write_count
                      /\ \A e \in DevIds \ {d} : dev[e] = last.pre.dev[e]
                 ELSE /\ last.ret = RamAt(last.pre.ram, a)
                      /\ DeviceCalls(trace) = <<>>
                      /\ dev = last.pre.dev
    /\ last.op = "write" =>
          LET a == last.addr
              d == PageAt(last.pre.page_device, a \div 256)
          IN  IF d # 0
              THEN /\ ram = last.pre.ram
                   /\ DeviceCalls(trace) =
                         <<[op |-> "w", addr |-> a, val |-> last.val, dev |-> d]>>
                   /\ dev[d].write_count = last.pre.dev[d].write_count + 1
                   /\ dev[d].read_count = last.pre.dev[d].read_count
                   /\ dev[d].last_write_val = last.val
                   /\ dev[d].last_write_addr_lo = a % 256
                   /\ \A e \in DevIds \ {d} : dev[e] = last.pre.dev[e]
              ELSE /\ RamAt(ram, a) = last.val
                   /\ RamDiff(ram, last.pre.ram) \subseteq {a}
                   /\ DeviceCalls(trace) = <<>>
                   /\ dev = last.pre.dev

\* C1 witness: a routed read of a mapped page whose RAM byte holds another value
C1_Witness ==
    /\ last.op = "read"
    /\ PageAt(last.pre.page_device, last.addr \div 256) # 0
    /\ RamAt(ram, last.addr) # 0
    /\ last.ret # RamAt(ram, last.addr)

\* C2: bus[a], read or assigned, touches RAM[a] only and never a device, also
\* when a's page is mapped: the devices are as they were, and a routed read(a)
\* made afterwards still answers with the device's value.
C2_DirectIndexBypassesDevices ==
    /\ last.op = "index_get" =>
          /\ last.ret = RamAt(last.pre.ram, last.addr)
          /\ ram = last.pre.ram
          /\ dev = last.pre.dev
          /\ page_device = last.pre.page_device
          /\ trace = <<>>
    /\ last.op = "index_set" =>
          LET a == last.addr
              d == PageAt(page_device, a \div 256)
          IN  /\ RamAt(ram, a) = last.val
              /\ RamDiff(ram, last.pre.ram) \subseteq {a}
              /\ dev = last.pre.dev
              /\ page_device = last.pre.page_device
              /\ trace = <<>>
              /\ d # 0 => /\ read(World, a).val = dev[d].read_val
                          /\ read(World, a).w.dev[d].read_count = dev[d].read_count + 1

\* C2 witness: a byte stored through bus[a] under a device-mapped page
C2_Witness ==
    /\ last.op = "index_set"
    /\ PageAt(page_device, last.addr \div 256) # 0
    /\ RamAt(ram, last.addr) = last.val
    /\ last.val # dev[PageAt(page_device, last.addr \div 256)].read_val

----------------------------------------------------------------------------
(* The assembler, driven as the tests drive it: a.org(loc)(mnem, mode, imm) *)

MaxAsmOps == 2

TestOrigins == {768, 49152, 65534, 65535}

EmitWords == {4660, 255}

TablePairs == {<<opcodeTable[i].mnem, opcodeTable[i].mode>> : i \in DOMAIN opcodeTable}

\* Pairs the 6502 does not have
IllegalPairs == {<<"STA", "IMMEDIATE">>, <<"JMP", "ZPG">>, <<"LDX", "ZPG_X">>}

EmitPairs == TablePairs \cup IllegalPairs

\* A bus with a device on page 0xC0, as bus.map(0xC0, &dev) leaves it
InitAsm ==
    /\ ram = EmptyRam
    /\ page_device = [p \in {192} |-> 1]
    /\ dev = [d \in DevIds |-> NewDevice(d)]
    /\ regs = RegsReset
    /\ org_ = 0
    /\ aborted = FALSE
    /\ oob = {}
    /\ labels_ = [n \in {} |-> 0]
    /\ trace = <<>>
    /\ last = [op |-> "init"]
    /\ nops = 0

\* Assembler::org
AsmOrg(location) ==
    /\ ~aborted /\ nops < MaxAsmOps
    /\ org_' = location
    /\ last' = [op |-> "org", location |-> location, pre |-> Snapshot]
    /\ trace' = <<>>
    /\ nops' = nops + 1
    /\ UNCHANGED <<ram, page_device, dev, regs, aborted, oob, labels_>>

\* Assembler::operator()(mnem, addr, imm):
\*     org_ += assemble_instr(mnem, addr, imm, &mem_[org_])
AsmEmit(mnem, mode, imm) ==
    /\ ~aborted /\ nops < MaxAsmOps
    /\ LET res == assemble_instr(mnem, mode, imm)
       IN  /\ aborted' = res.abort
           /\ ram' = StoreBytes(ram, org_, res.bytes)
           /\ oob' = oob \cup StoresOutside(org_, res.bytes)
           /\ org_' = U16(org_ + res.len)
    /\ last' = [op |-> "emit", mnem |-> mnem, mode |-> mode, imm |-> imm,
                pre |-> Snapshot]
    /\ trace' = <<>>
    /\ nops' = nops + 1
    /\ UNCHANGED <<page_device, dev, regs, labels_>>

NextAsm ==
    \/ \E location \in TestOrigins : AsmOrg(location)
    \/ \E p \in EmitPairs, imm \in EmitWords : AsmEmit(p[1], p[2], imm)

SpecAsm == InitAsm /\ [][NextAsm]_vars

\* The bytes the specification gives for emit(mnem, mode, w)
ExpectedBytes(mnem, mode, w) ==
    LET opc == mnem_addr_to_opcode(mnem, mode).byte
        len == addressing_mode_to_length(mode)
    IN  IF len = 1 THEN <<opc>>
        ELSE IF len = 2 THEN <<opc, w % 256>>
        ELSE <<opc, w % 256, (w \div 256) % 256>>

\* C7: for every (mnemonic, mode) record of the opcode table, emit writes at the
\* origin the opcode byte of the record that matches both the mnemonic and the
\* mode, so that decoding the byte at that address gives back the same pair.
C7_EmitWritesPairOpcode ==
    (last.op = "emit" /\ <<last.mnem, last.mode>> \in TablePairs) =>
        /\ ~aborted
        /\ RamAt(ram, last.pre.org_) = mnem_addr_to_opcode(last.mnem, last.mode).byte
        /\ byte_to_opcode(RamAt(ram, last.pre.org_)).mnem = last.mnem
        /\ byte_to_opcode(RamAt(ram, last.pre.org_)).mode = last.mode

\* C8: for every table pair, word w and origin o, emit stores exactly
\* length(mode) bytes into RAM from o on, [opcode], [opcode, w & 0xFF] or
\* [opcode, w & 0xFF, (w >> 8) & 0xFF], changes no other RAM byte, invokes no
\* device even under a device-mapped origin page, and advances the origin by
\* length(mode).
C8_EmitByteLayout ==
    (last.op = "emit" /\ <<last.mnem, last.mode>> \in TablePairs) =>
        LET o     == last.pre.org_
            bytes == ExpectedBytes(last.mnem, last.mode, last.imm)
            at    == {U16(o + i - 1) : i \in DOMAIN bytes}
        IN  /\ ~aborted
            /\ \A i \in DOMAIN bytes : RamAt(ram, U16(o + i - 1)) = bytes[i]
            /\ RamDiff(ram, last.pre.ram) \subseteq at
            /\ dev = last.pre.dev
            /\ page_device = last.pre.page_device
            /\ trace = <<>>
            /\ org_ = U16(o + addressing_mode_to_length(last.mode))

\* C9: emit of a (mnemonic, mode) pair that is no record of the opcode table is
\* fatal: the call aborts, stores no byte and does not advance the origin.
C9_EmitIllegalPairIsFatal ==
    (last.op = "emit" /\ <<last.mnem, last.mode>> \notin TablePairs) =>
        /\ aborted
        /\ ram = last.pre.ram
        /\ org_ = last.pre.org_

----------------------------------------------------------------------------
(* The interpreter, driven as the tests drive it: registers and RAM are set *)
(* up directly, devices are mapped, then run_instr is called.               *)

MaxSteps == 1

\* Where the instruction sits: in plain RAM, or under the device page 0xC0
TestPCs == {768, 49152}

\* Operand bytes: zero-page operands 0x20 and 0xF0, high bytes 0xC0 and 0xBF
OperandLo == {32, 240}

OperandHi == {192, 191}

IndexVals == {0, 16}

\* No device; a device on page 0xC0 (read_val 0x42, or 0xEA); a device on page 0
MapConfigs ==
    {[p \in {} |-> 0], [p \in {192} |-> 1], [p \in {192} |-> 2], [p \in {0} |-> 1]}

\* Zero-page pointers to 0xC000, 0xC010 and 0xBFF0, and data bytes
DataImage ==
    (0 :> 16) @@ (1 :> 192) @@ (32 :> 0) @@ (33 :> 192) @@ (48 :> 240) @@ (49 :> 191)
    @@ (240 :> 0) @@ (241 :> 192) @@ (49120 :> 51) @@ (49136 :> 52)
    @@ (49155 :> 119) @@ (49184 :> 120) @@ (49200 :> 121)

\* RAM holding the data image and the three instruction bytes at pc
Program(pc, opc, lo, hi) ==
    StoreBytes(DataImage, pc, <<opc, lo, hi>>)

FlagSets ==
    {[C |-> 0, Z |-> 0, I |-> 0, D |-> 0, V |-> 0, N |-> 0],
     [C |-> 1, Z |-> 1, I |-> 1, D |-> 1, V |-> 1, N |-> 1]}

InitCpu ==
    /\ \E pc \in TestPCs, opc \in 0 .. 255, lo \in OperandLo, hi \in OperandHi,
          x \in IndexVals, y \in IndexVals, f \in FlagSets :
          /\ ram = Program(pc, opc, lo, hi)
          /\ regs = [PC |-> pc, A |-> 15, X |-> x, Y |-> y, SP |-> 255, flags |-> f]
    /\ page_device \in MapConfigs
    /\ dev = [d \in DevIds |-> [NewDevice(d) EXCEPT !.read_val = IF d = 1 THEN 66 ELSE 234]]
    /\ org_ = 0
    /\ aborted = FALSE
    /\ oob = {}
    /\ labels_ = [n \in {} |-> 0]
    /\ trace = <<>>
    /\ last = [op |-> "init"]
    /\ nops = 0

\* The registers, the bus and the devices as run_instr left them
Stepped(res) ==
    /\ regs' = res.regs
    /\ Commit(res.w)
    /\ aborted' = res.abort

\* One call of run_instr(regs, mem)
CpuStep ==
    /\ ~aborted /\ nops < MaxSteps
    /\ Stepped(run_instr(regs, World))
    /\ last' = [op |-> "step", pre |-> Snapshot]
    /\ nops' = nops + 1
    /\ UNCHANGED <<org_, oob, labels_>>

NextCpu == CpuStep

SpecCpu == InitCpu /\ [][NextCpu]_vars

\* The state the last step started from
Pre == last.pre

PreWorld == [ram |-> Pre.ram, page_device |-> Pre.page_device, dev |-> Pre.dev,
             trace |-> <<>>]

\* The RAM byte at the PC the last step started from
OpcodeInRam == RamAt(Pre.ram, Pre.regs.PC)

Documented(b) == \E i \in DOMAIN opcodeTable : opcodeTable[i].byte = b

Mapped(pd, addr) == PageAt(pd, U16(addr) \div 256) # 0

\* C3 (the claim as stated): a step fetches the opcode at PC through the routed
\* read: when PC's page is mapped to a device, the device observes a read at PC
\* and the instruction decoded and executed is the byte that read returned, not
\* the RAM byte at PC.
C3_FetchIsRouted ==
    (last.op = "step" /\ Mapped(Pre.page_device, Pre.regs.PC)) =>
        LET pc == Pre.regs.PC
            d  == PageAt(Pre.page_device, pc \div 256)
            f  == read(PreWorld, pc)
        IN  /\ \/ trace # <<>> /\ trace[1] = [op |-> "r", addr |-> pc, val |-> f.val, dev |-> d]
               \/ aborted /\ dev[d].read_count = Pre.dev[d].read_count + 1
            /\ IF Documented(f.val)
               THEN /\ ~aborted
                    /\ regs = execute_opcode(byte_to_opcode(f.val), Pre.regs, f.w).regs
               ELSE aborted

OperandReaders ==
    {"LDA", "LDX", "LDY", "ADC", "SBC", "AND", "ORA", "EOR", "CMP", "CPX", "CPY", "BIT"}

MemoryModes == {"ZPG", "ZPG_X", "ZPG_Y", "ABS", "ABS_X", "ABS_Y", "X_IND", "IND_Y"}

\* The effective address of the addressing-mode table, for an instruction whose
\* bytes and zero-page pointer are read from RAM r
TableEA(mode, r, pc, x, y) ==
    LET b1   == RamAt(r, (pc + 1) % 65536)
        b2   == RamAt(r, (pc + 2) % 65536)
        word == b1 + 256 * b2
    IN  CASE mode = "ZPG"   -> b1
          [] mode = "ZPG_X" -> (b1 + x) % 256
          [] mode = "ZPG_Y" -> (b1 + y) % 256
          [] mode = "ABS"   -> word
          [] mode = "ABS_X" -> (word + x) % 65536
          [] mode = "ABS_Y" -> (word + y) % 65536
          [] mode = "X_IND" -> RamAt(r, (b1 + x) % 256) + 256 * RamAt(r, (b1 + x + 1) % 256)
          [] mode = "IND_Y" ->
                (RamAt(r, b1) + 256 * RamAt(r, (b1 + 1) % 256) + y) % 65536

\* The last step ran an operand-reading instruction in a memory mode, its bytes
\* and any zero-page pointer bytes in unmapped RAM, the effective address under
\* a device
ReadsOperandFromDevice ==
    /\ last.op = "step"
    /\ Documented(OpcodeInRam)
    /\ LET op == byte_to_opcode(OpcodeInRam)
           pc == Pre.regs.PC
       IN  /\ op.mnem \in OperandReaders
           /\ op.mode \in MemoryModes
           /\ \A i \in 0 .. 2 : ~Mapped(Pre.page_device, pc + i)
           /\ op.mode \in {"X_IND", "IND_Y"} => ~Mapped(Pre.page_device, 0)
           /\ Mapped(Pre.page_device,
                     TableEA(op.mode, Pre.ram, pc, Pre.regs.X, Pre.regs.Y))

\* C4: an operand-reading instruction (LDA, LDX, LDY, ADC, SBC, AND, ORA, EOR,
\* CMP, CPX, CPY, BIT) in any memory addressing mode, its bytes and zero-page
\* pointer bytes in unmapped RAM and its effective address under a device,
\* performs exactly one device read, at the effective address, and no device
\* write; LDA then holds the byte the device returned.
C4_OneDeviceReadPerOperand ==
    ReadsOperandFromDevice =>
        LET op == byte_to_opcode(OpcodeInRam)
            ea == TableEA(op.mode, Pre.ram, Pre.regs.PC, Pre.regs.X, Pre.regs.Y)
            d  == PageAt(Pre.page_device, ea \div 256)
        IN  /\ ~aborted
            /\ DeviceCalls(trace) =
                  <<[op |-> "r", addr |-> ea, val |-> Pre.dev[d].read_val, dev |-> d]>>
            /\ dev[d].read_count = Pre.dev[d].read_count + 1
            /\ \A e \in DevIds : dev[e].write_count = Pre.dev[e].write_count
            /\ \A e \in DevIds \ {d} : dev[e] = Pre.dev[e]
            /\ ram = Pre.ram
            /\ op.mnem = "LDA" => regs.A = Pre.dev[d].read_val

\* C4 witness: LDA absolute from the device page loaded 0x42 with one device read
C4_Witness ==
    /\ ReadsOperandFromDevice
    /\ byte_to_opcode(OpcodeInRam) = [mnem |-> "LDA", byte |-> 173, mode |-> "ABS"]
    /\ regs.A = 66
    /\ dev[1].read_count = 1

\* the byte values byte_to_opcode finds no table record for
UndocumentedBytes == {b \in 0 .. 255 : ~Documented(b)}

\* C5: when the byte fetched at PC is one of the 105 byte values that are not in
\* the opcode table, the step aborts, and at the abort no register, flag or
\* memory byte (nor any device) has been modified.
C5_UndocumentedOpcodeIsFatal ==
    /\ Cardinality(UndocumentedBytes) = 105
    /\ (last.op = "step" /\ ~Documented(fetch(Pre.regs, PreWorld))) =>
          /\ aborted
          /\ regs = Pre.regs
          /\ ram = Pre.ram
          /\ page_device = Pre.page_device
          /\ dev = Pre.dev
          /\ trace = <<>>

\* C5 witness: a step on the undocumented byte 0x02 has aborted
C5_Witness ==
    /\ last.op = "step"
    /\ fetch(Pre.regs, PreWorld) = 2
    /\ aborted


----------------------------------------------------------------------------
(* The two table lookups, called on every byte value and on every          *)
(* (mnemonic, addressing mode) pair.                                        *)

MaxLookups == 2

\* byte_to_opcode(byte) is called; a miss ends the program in abort()
Decode(byte) ==
    /\ ~aborted /\ nops < MaxLookups
    /\ LET ret == byte_to_opcode(byte)
       IN  /\ last' = [op |-> "decode", byte |-> byte, ret |-> ret]
           /\ aborted' = (ret = NOT_REACHED)
    /\ nops' = nops + 1
    /\ UNCHANGED <<ram, page_device, dev, regs, org_, oob, labels_, trace>>

\* mnem_addr_to_opcode(mnem, mode) is called; a miss ends the program in abort()
Encode(mnem, mode) ==
    /\ ~aborted /\ nops < MaxLookups
    /\ LET ret == mnem_addr_to_opcode(mnem, mode)
       IN  /\ last' = [op |-> "encode", mnem |-> mnem, mode |-> mode, ret |-> ret]
           /\ aborted' = (ret = NOT_REACHED)
    /\ nops' = nops + 1
    /\ UNCHANGED <<ram, page_device, dev, regs, org_, oob, labels_, trace>>

NextTable ==
    \/ \E byte \in 0 .. 255 : Decode(byte)
    \/ \E mnem \in Mnemonics, mode \in AddressingModes : Encode(mnem, mode)

SpecTable == Init /\ [][NextTable]_vars

\* The opcode bytes of the table
TableBytes == {opcodeTable[i].byte : i \in DOMAIN opcodeTable}

\* C6: the table has 151 records with 151 different bytes and 151 different
\* (mnemonic, mode) pairs; decoding a documented byte returns a record with that
\* byte whose pair encodes back to the same record, and encoding a documented
\* pair returns a record with that pair whose byte decodes back to the same
\* record.
C6_TableIsBijection ==
    /\ Len(opcodeTable) = 151
    /\ Cardinality(TableBytes) = 151
    /\ Cardinality(TablePairs) = 151
    /\ (last.op = "decode" /\ last.byte \in TableBytes) =>
          /\ ~aborted
          /\ last.ret.byte = last.byte
          /\ \E i \in DOMAIN opcodeTable : opcodeTable[i] = last.ret
          /\ mnem_addr_to_opcode(last.ret.mnem, last.ret.mode) = last.ret
    /\ (last.op = "encode" /\ <<last.mnem, last.mode>> \in TablePairs) =>
          /\ ~aborted
          /\ last.ret.mnem = last.mnem
          /\ last.ret.mode = last.mode
          /\ \E i \in DOMAIN opcodeTable : opcodeTable[i] = last.ret
          /\ byte_to_opcode(last.ret.byte) = last.ret

\* C6 witness: 0x69 decoded to ADC immediate, a mnemonic with eight modes
C6_Witness ==
    /\ last.op = "decode"
    /\ last.byte = 105
    /\ last.ret = [mnem |-> "ADC", byte |-> 105, mode |-> "IMMEDIATE"]
    /\ mnem_addr_to_opcode("ADC", "IMMEDIATE").byte = 105

----------------------------------------------------------------------------
(* ADC, stepped once from every accumulator, operand and carry.             *)

\* Operand values of the zero-page form; the immediate form takes every byte
EdgeOperands == {0, 1, 9, 15, 16, 127, 128, 153, 255}

\* ADC #m at 0x300 (0x69), or ADC $20 at 0x300 (0x65) with m stored at 0x20
AdcProgram(opc, m) ==
    IF opc = 105 THEN StoreBytes(EmptyRam, 768, <<105, m>>)
    ELSE StoreBytes(StoreBytes(EmptyRam, 32, <<m>>), 768, <<101, 32>>)

InitAlu ==
    /\ \E a \in 0 .. 255, m \in 0 .. 255, c \in {0, 1}, d \in {0, 1}, opc \in {105, 101} :
          /\ opc = 101 => m \in EdgeOperands
          /\ ram = AdcProgram(opc, m)
          /\ regs = [PC |-> 768, A |-> a, X |-> 0, Y |-> 0, SP |-> 255,
                     flags |-> [C |-> c, Z |-> 1 - d, I |-> 1 - d, D |-> d,
                                V |-> 1 - c, N |-> d]]
    /\ page_device = [p \in {} |-> 0]
    /\ dev = [d \in DevIds |-> NewDevice(d)]
    /\ org_ = 0
    /\ aborted = FALSE
    /\ oob = {}
    /\ labels_ = [n \in {} |-> 0]
    /\ trace = <<>>
    /\ last = [op |-> "init"]
    /\ nops = 0

SpecAlu == InitAlu /\ [][NextCpu]_vars

\* The record of the byte the last step decoded
StepOpcode == byte_to_opcode(OpcodeInRam)

\* The operand byte of the last step: the byte after the opcode, or the
\* zero-page byte it addresses
StepOperand ==
    LET b == RamAt(Pre.ram, U16(Pre.regs.PC + 1))
    IN  IF StepOpcode.mode = "IMMEDIATE" THEN b ELSE RamAt(Pre.ram, b)

\* C10: after a whole step that executes ADC, with sum = A + m + C in 9 bits:
\* A is sum & 0xFF, C is 1 iff sum > 0xFF, V is 1 iff
\* (A ^ sum) & (m ^ sum) & 0x80 is not 0, Z is 1 iff the new A is 0, N is bit 7
\* of the new A, I and D are as before; 0x7F + 0x01 with C = 0 gives A = 0x80,
\* V = 1, N = 1, C = 0, Z = 0.
C10_AdcAfterStep ==
    (last.op = "step" /\ StepOpcode.mnem = "ADC") =>
        LET a   == Pre.regs.A
            m   == StepOperand
            sum == a + m + Pre.regs.flags.C
        IN  /\ ~aborted
            /\ regs.A = sum % 256
            /\ regs.flags.C = Bool(sum > 255)
            /\ regs.flags.V = Bool(BitAnd(BitAnd(BitXor(a, sum), BitXor(m, sum)), 128) # 0)
            /\ regs.flags.Z = Bool(regs.A = 0)
            /\ regs.flags.N = Bit(regs.A, 7)
            /\ regs.flags.I = Pre.regs.flags.I
            /\ regs.flags.D = Pre.regs.flags.D
            /\ (a = 127 /\ m = 1 /\ Pre.regs.flags.C = 0) =>
                  /\ regs.A = 128
                  /\ regs.flags.V = 1
                  /\ regs.flags.N = 1
                  /\ regs.flags.C = 0
                  /\ regs.flags.Z = 0

\* C10 witness: ADC #$01 stepped with A = 0x7F, C = 0 and D = 1 left A = 0x80
C10_Witness ==
    /\ last.op = "step"
    /\ StepOpcode = [mnem |-> "ADC", byte |-> 105, mode |-> "IMMEDIATE"]
    /\ Pre.regs.A = 127
    /\ StepOperand = 1
    /\ Pre.regs.flags.C = 0
    /\ Pre.regs.flags.D = 1
    /\ regs.A = 128
    /\ regs.flags.V = 1

----------------------------------------------------------------------------
(* Single instructions stepped from whole families of register, operand and *)
(* flag values, set up as the opcode tests set them up.                     *)

\* The state of a test before run_instr: RAM image, registers, page table
Start(image, r, pd) ==
    /\ ram = image
    /\ regs = r
    /\ page_device = pd
    /\ dev = [d \in DevIds |-> [NewDevice(d) EXCEPT !.read_val = IF d = 1 THEN 192 ELSE 234]]
    /\ org_ = 0
    /\ aborted = FALSE
    /\ oob = {}
    /\ labels_ = [n \in {} |-> 0]
    /\ trace = <<>>
    /\ last = [op |-> "init"]
    /\ nops = 0

NoDevices == [p \in {} |-> 0]

\* All six flags clear, or all six set
AllFlags(b) == [C |-> b, Z |-> b, I |-> b, D |-> b, V |-> b, N |-> b]

\* The instruction opc with operand byte m at 0x300: immediate when imm, else
\* addressing zero-page 0x20, where m is stored
UnaryProgram(opc, imm, m) ==
    IF imm THEN StoreBytes(EmptyRam, 768, <<opc, m>>)
    ELSE StoreBytes(StoreBytes(EmptyRam, 32, <<m>>), 768, <<opc, 32>>)

\* SBC #m (0xE9) from every A, m and carry, and SBC $20 (0xE5) on edge operands
InitSbc ==
    \E a \in 0 .. 255, m \in 0 .. 255, c \in {0, 1}, d \in {0, 1}, opc \in {233, 229} :
        /\ opc = 229 => m \in EdgeOperands
        /\ Start(UnaryProgram(opc, opc = 233, m),
                 [PC |-> 768, A |-> a, X |-> 0, Y |-> 0, SP |-> 255,
                  flags |-> [C |-> c, Z |-> 1 - d, I |-> 1 - d, D |-> d,
                             V |-> 1 - c, N |-> d]],
                 NoDevices)

SpecSbc == InitSbc /\ [][NextCpu]_vars

\* C11: after a whole step that executes SBC, with diff = A + (m XOR 0xFF) + C in
\* 9 bits: A is diff & 0xFF, which is A - m - (1 - C) mod 256, C is 1 iff
\* diff > 0xFF, V is 1 iff (A ^ diff) & ((m XOR 0xFF) ^ diff) & 0x80 is not 0,
\* Z is 1 iff the new A is 0, N is bit 7 of the new A, for either value of D;
\* 0x30 - 0x10 with C = 1 gives 0x20 with C = 1, 0x00 - 0x01 with C = 1 gives
\* 0xFF with C = 0.
C11_SbcAfterStep ==
    (last.op = "step" /\ StepOpcode.mnem = "SBC") =>
        LET a     == Pre.regs.A
            m     == StepOperand
            c     == Pre.regs.flags.C
            m_inv == BitXor(m, 255)
            diff  == a + m_inv + c
        IN  /\ ~aborted
            /\ regs.A = diff % 256
            /\ regs.A = (a - m - (1 - c)) % 256
            /\ regs.flags.C = Bool(diff > 255)
            /\ regs.flags.V =
                  Bool(BitAnd(BitAnd(BitXor(a, diff), BitXor(m_inv, diff)), 128) # 0)
            /\ regs.flags.Z = Bool(regs.A = 0)
            /\ regs.flags.N = Bit(regs.A, 7)
            /\ regs.flags.I = Pre.regs.flags.I
            /\ regs.flags.D = Pre.regs.flags.D
            /\ (a = 48 /\ m = 16 /\ c = 1) => (regs.A = 32 /\ regs.flags.C = 1)
            /\ (a = 0 /\ m = 1 /\ c = 1) => (regs.A = 255 /\ regs.flags.C = 0)

\* C11 witness: SBC #$01 stepped with A = 0x00, C = 1 and D = 1 left A = 0xFF
\* and a borrow
C11_Witness ==
    /\ last.op = "step"
    /\ StepOpcode = [mnem |-> "SBC", byte |-> 233, mode |-> "IMMEDIATE"]
    /\ Pre.regs.A = 0
    /\ StepOperand = 1
    /\ Pre.regs.flags.C = 1
    /\ Pre.regs.flags.D = 1
    /\ regs.A = 255
    /\ regs.flags.C = 0
    /\ regs.flags.N = 1

----------------------------------------------------------------------------
(* CMP, CPX and CPY, stepped from every register value and operand.         *)

\* CMP #, CPX #, CPY # (0xC9, 0xE0, 0xC0); CMP, CPX, CPY zero-page (0xC5, 0xE4, 0xC4)
CompareImmediate == {201, 224, 192}

CompareZeroPage == {197, 228, 196}

\* The register a compare opcode reads holds reg; the other two hold others
CompareRegs(opc, reg, other, f) ==
    [PC |-> 768, SP |-> 253, flags |-> f,
     A |-> IF opc \in {201, 197} THEN reg ELSE other,
     X |-> IF opc \in {224, 228} THEN reg ELSE other,
     Y |-> IF opc \in {192, 196} THEN reg ELSE other]

InitCompare ==
    \E reg \in 0 .. 255, m \in 0 .. 255, b \in {0, 1},
       opc \in CompareImmediate \cup CompareZeroPage :
        /\ opc \in CompareImmediate => b = (reg + m) % 2
        /\ opc \in CompareZeroPage => (m \in EdgeOperands /\ reg \in EdgeOperands)
        /\ Start(UnaryProgram(opc, opc \in CompareImmediate, m),
                 CompareRegs(opc, reg, 255 - m, AllFlags(b)), NoDevices)

SpecCompare == InitCompare /\ [][NextCpu]_vars

\* The register the compare of the last step read, as it was before the step
ComparedRegister ==
    CASE StepOpcode.mnem = "CMP" -> Pre.regs.A
      [] StepOpcode.mnem = "CPX" -> Pre.regs.X
      [] StepOpcode.mnem = "CPY" -> Pre.regs.Y

\* C12: after a whole step that executes CMP, CPX or CPY on register value r and
\* operand m: C is 1 iff r >= m unsigned, Z is 1 iff r = m, N is bit 7 of
\* (r - m) mod 256, and A, X, Y, SP, V, I, D and memory are as before.
C12_CompareAfterStep ==
    (last.op = "step" /\ StepOpcode.mnem \in {"CMP", "CPX", "CPY"}) =>
        LET r == ComparedRegister
            m == StepOperand
        IN  /\ ~aborted
            /\ regs.flags.C = Bool(r >= m)
            /\ regs.flags.Z = Bool(r = m)
            /\ regs.flags.N = Bit((r - m) % 256, 7)
            /\ regs.A = Pre.regs.A
            /\ regs.X = Pre.regs.X
            /\ regs.Y = Pre.regs.Y
            /\ regs.SP = Pre.regs.SP
            /\ regs.flags.V = Pre.regs.flags.V
            /\ regs.flags.I = Pre.regs.flags.I
            /\ regs.flags.D = Pre.regs.flags.D
            /\ ram = Pre.ram

\* C12 witness: CPX #$80 stepped with X = 0x7F and all flags set cleared C and Z
\* and set N (0x7F - 0x80 = 0xFF)
C12_Witness ==
    /\ last.op = "step"
    /\ StepOpcode = [mnem |-> "CPX", byte |-> 224, mode |-> "IMMEDIATE"]
    /\ Pre.regs.X = 127
    /\ StepOperand = 128
    /\ Pre.regs.flags = AllFlags(1)
    /\ regs.flags = [C |-> 0, Z |-> 0, I |-> 1, D |-> 1, V |-> 1, N |-> 1]

----------------------------------------------------------------------------
(* AND, ORA, EOR and BIT, stepped from every accumulator and operand.       *)

\* ORA #, AND #, EOR # (0x09, 0x29, 0x49); ORA, AND, EOR zero-page (0x05, 0x25, 0x45)
LogicImmediate == {9, 41, 73}

LogicZeroPage == {5, 37, 69}

\* BIT zero-page (0x24) and BIT absolute (0x2C)
BitOpcodes == {36, 44}

\* The instruction opc $1234 at 0x300, with m stored at 0x1234
AbsProgram(opc, m) ==
    StoreBytes(StoreBytes(EmptyRam, 4660, <<m>>), 768, <<opc, 52, 18>>)

LogicProgram(opc, m) ==
    IF opc = 44 THEN AbsProgram(opc, m) ELSE UnaryProgram(opc, opc \in LogicImmediate, m)

\* Every A and m with the flags all equal to the parity of A + m; edge values
\* of A and m with the flags all clear and all set
InitLogic ==
    \E a \in 0 .. 255, m \in 0 .. 255, b \in {0, 1},
       opc \in LogicImmediate \cup LogicZeroPage \cup BitOpcodes :
        /\ opc \in LogicZeroPage => (a \in EdgeOperands /\ m \in EdgeOperands)
        /\ (a \in EdgeOperands /\ m \in EdgeOperands) \/ b = (a + m) % 2
        /\ Start(LogicProgram(opc, m),
                 [PC |-> 768, A |-> a, X |-> 17, Y |-> 34, SP |-> 253, flags |-> AllFlags(b)],
                 NoDevices)

SpecLogic == InitLogic /\ [][NextCpu]_vars

\* The operand byte of the last step, for an instruction in a memory mode
StepMemOperand ==
    RamAt(Pre.ram, TableEA(StepOpcode.mode, Pre.ram, Pre.regs.PC, Pre.regs.X, Pre.regs.Y))

\* C13: after a whole step that executes AND, ORA or EOR, A is A & m, A | m or
\* A ^ m, Z is 1 iff the new A is 0, N is bit 7 of the new A, and C, V, I and D
\* are what they were before the step; ORA #$00 with C = 0 and A = 0x80 leaves
\* C = 0.
C13_LogicAfterStep ==
    (last.op = "step" /\ StepOpcode.mnem \in {"AND", "ORA", "EOR"}) =>
        LET a == Pre.regs.A
            m == StepOperand
        IN  /\ ~aborted
            /\ regs.A = CASE StepOpcode.mnem = "AND" -> BitAnd(a, m)
                          [] StepOpcode.mnem = "ORA" -> BitOr(a, m)
                          [] StepOpcode.mnem = "EOR" -> BitXor(a, m)
            /\ regs.flags.Z = Bool(regs.A = 0)
            /\ regs.flags.N = Bit(regs.A, 7)
            /\ regs.flags.C = Pre.regs.flags.C
            /\ regs.flags.V = Pre.regs.flags.V
            /\ regs.flags.I = Pre.regs.flags.I
            /\ regs.flags.D = Pre.regs.flags.D
            /\ (StepOpcode.byte = 9 /\ a = 128 /\ m = 0 /\ Pre.regs.flags.C = 0) =>
                  regs.flags.C = 0

\* C13 witness: ORA #$00 stepped with A = 0x80 and all flags clear left C = 0
\* and set N
C13_Witness ==
    /\ last.op = "step"
    /\ StepOpcode = [mnem |-> "ORA", byte |-> 9, mode |-> "IMMEDIATE"]
    /\ Pre.regs.A = 128
    /\ StepOperand = 0
    /\ Pre.regs.flags = AllFlags(0)
    /\ regs.A = 128
    /\ regs.flags = [C |-> 0, Z |-> 0, I |-> 0, D |-> 0, V |-> 0, N |-> 1]

\* C18: after a whole step that executes BIT (zero-page or absolute) on
\* accumulator A and memory operand m: Z is 1 iff (A & m) = 0, N is bit 7 of m,
\* V is bit 6 of m, and A, X, Y, SP, C, I, D and memory are as before.
C18_BitAfterStep ==
    (last.op = "step" /\ StepOpcode.mnem = "BIT") =>
        LET m == StepMemOperand
        IN  /\ ~aborted
            /\ regs.flags.Z = Bool(BitAnd(Pre.regs.A, m) = 0)
            /\ regs.flags.N = Bit(m, 7)
            /\ regs.flags.V = Bit(m, 6)
            /\ regs.A = Pre.regs.A
            /\ regs.X = Pre.regs.X
            /\ regs.Y = Pre.regs.Y
            /\ regs.SP = Pre.regs.SP
            /\ regs.flags.C = Pre.regs.flags.C
            /\ regs.flags.I = Pre.regs.flags.I
            /\ regs.flags.D = Pre.regs.flags.D
            /\ ram = Pre.ram

\* C18 witness: BIT $1234 stepped with A = 0x10, the byte 0x40 at 0x1234 and all
\* flags clear set Z and V and nothing else
C18_Witness ==
    /\ last.op = "step"
    /\ StepOpcode = [mnem |-> "BIT", byte |-> 44, mode |-> "ABS"]
    /\ Pre.regs.A = 16
    /\ StepMemOperand = 64
    /\ Pre.regs.flags = AllFlags(0)
    /\ regs.flags = [C |-> 0, Z |-> 1, I |-> 0, D |-> 0, V |-> 1, N |-> 0]
    /\ regs.A = 16

----------------------------------------------------------------------------
(* ASL, LSR, ROL and ROR in all five modes, stepped from every old byte.    *)

\* ASL, ROL, LSR, ROR in ZPG, ACCUMULATOR, ABS, ZPG_X and ABS_X form
ShiftOpcodes ==
    {6, 10, 14, 22, 30} \cup {38, 42, 46, 54, 62} \cup {70, 74, 78, 86, 94}
    \cup {102, 106, 110, 118, 126}

\* The instruction opc with operand bytes 0x34 0x12 at 0x300
Instruction(opc) == StoreBytes(EmptyRam, 768, <<opc, 52, 18>>)

\* The address the instruction opc at 0x300 targets when X = x and Y = y
TargetOf(opc, x, y) == TableEA(byte_to_opcode(opc).mode, Instruction(opc), 768, x, y)

\* The instruction and the byte old at its target, for the memory modes
TargetProgram(opc, x, y, old) ==
    IF byte_to_opcode(opc).mode \in MemoryModes
    THEN StoreBytes(Instruction(opc), TargetOf(opc, x, y), <<old>>)
    ELSE Instruction(opc)

\* X = 5, or X = 0xF0, which wraps the zero-page sum 0x34 + X
ShiftIndex == {5, 240}

InitShift ==
    \E opc \in ShiftOpcodes, old \in 0 .. 255, c \in {0, 1}, x \in ShiftIndex :
        /\ byte_to_opcode(opc).mode \in {"ACCUMULATOR", "ZPG", "ABS"} => x = 5
        /\ Start(TargetProgram(opc, x, 0, old),
                 [PC |-> 768, X |-> x, Y |-> 0, SP |-> 253,
                  A |-> IF byte_to_opcode(opc).mode = "ACCUMULATOR" THEN old
                        ELSE (old + 85) % 256,
                  flags |-> [C |-> c, Z |-> 1 - c, I |-> c, D |-> 1 - c, V |-> c,
                             N |-> 1 - c]],
                 NoDevices)

SpecShift == InitShift /\ [][NextCpu]_vars

\* The address the last step's instruction targets, by the addressing-mode table
StepTarget == TableEA(StepOpcode.mode, Pre.ram, Pre.regs.PC, Pre.regs.X, Pre.regs.Y)

\* The byte a shift of old with carry-in c produces, and the carry it leaves
Shifted(mnem, old, c) ==
    CASE mnem = "ASL" -> [new |-> (old * 2) % 256, carry |-> old \div 128]
      [] mnem = "LSR" -> [new |-> old \div 2, carry |-> old % 2]
      [] mnem = "ROL" -> [new |-> (old * 2 + c) % 256, carry |-> old \div 128]
      [] mnem = "ROR" -> [new |-> (old \div 2) + 128 * c, carry |-> old % 2]

\* C14: after a whole step that executes ASL, LSR, ROL or ROR on the old byte of
\* its target (A in ACCUMULATOR mode, the memory byte at the effective address
\* otherwise) with carry-in C: the target holds (old<<1)&0xFF, old>>1,
\* ((old<<1)|C)&0xFF or (old>>1)|(C<<7); C is old bit 7 for ASL and ROL, old
\* bit 0 for LSR and ROR; Z is 1 iff the new byte is 0, N is bit 7 of the new
\* byte (0 for LSR); in memory modes A is unchanged, in ACCUMULATOR mode no
\* memory byte is written.
C14_ShiftAfterStep ==
    (last.op = "step" /\ StepOpcode.mnem \in {"ASL", "LSR", "ROL", "ROR"}) =>
        LET acc == StepOpcode.mode = "ACCUMULATOR"
            old == IF acc THEN Pre.regs.A ELSE RamAt(Pre.ram, StepTarget)
            s   == Shifted(StepOpcode.mnem, old, Pre.regs.flags.C)
        IN  /\ ~aborted
            /\ IF acc
               THEN /\ regs.A = s.new
                    /\ ram = Pre.ram
                    /\ \A i \in DOMAIN trace : trace[i].op # "w"
               ELSE /\ RamAt(ram, StepTarget) = s.new
                    /\ RamDiff(ram, Pre.ram) \subseteq {StepTarget}
                    /\ regs.A = Pre.regs.A
            /\ regs.flags.C = s.carry
            /\ regs.flags.Z = Bool(s.new = 0)
            /\ regs.flags.N = Bit(s.new, 7)
            /\ StepOpcode.mnem = "LSR" => regs.flags.N = 0

\* C14 witness: ROR $34,X stepped with X = 0xF0, the byte 0x01 at 0x24 and C = 1
\* stored 0x80 there, set C and N and left A alone
C14_Witness ==
    /\ last.op = "step"
    /\ StepOpcode = [mnem |-> "ROR", byte |-> 118, mode |-> "ZPG_X"]
    /\ Pre.regs.X = 240
    /\ StepTarget = 36
    /\ RamAt(Pre.ram, 36) = 1
    /\ Pre.regs.flags.C = 1
    /\ RamAt(ram, 36) = 128
    /\ regs.flags.C = 1
    /\ regs.flags.N = 1
    /\ regs.flags.Z = 0
    /\ regs.A = 86

----------------------------------------------------------------------------
(* Loads, increments, decrements, transfers, flag instructions and NOP,     *)
(* stepped from every byte value.                                           *)

\* LDA #, LDX #, LDY #, LDA zpg, LDA (zp),Y, LDX zpg,Y, LDY abs,X
LoadOpcodes == {169, 162, 160, 165, 177, 182, 188}

\* INX, INY, DEX, DEY
StepRegisterOpcodes == {232, 200, 202, 136}

\* INC and DEC in ZPG, ZPG_X, ABS and ABS_X form
StepMemoryOpcodes == {230, 246, 238, 254} \cup {198, 214, 206, 222}

\* TAX, TAY, TXA, TYA, TSX, TXS
TransferOpcodes == {170, 168, 138, 152, 186, 154}

\* CLC, SEC, CLI, SEI, CLV, CLD, SED, NOP
FlagOpcodes == {24, 56, 88, 120, 184, 216, 248, 234}

\* Every combination of the six flags
FlagStates ==
    [C : {0, 1}, Z : {0, 1}, I : {0, 1}, D : {0, 1}, V : {0, 1}, N : {0, 1}]

\* The instruction opc at pc; m is its immediate operand, or the byte at its
\* target
RegisterProgram(opc, pc, x, y, m) ==
    CASE byte_to_opcode(opc).mode = "IMPLIED" -> StoreBytes(EmptyRam, pc, <<opc>>)
      [] byte_to_opcode(opc).mode = "IMMEDIATE" -> UnaryProgram(opc, TRUE, m)
      [] OTHER -> TargetProgram(opc, x, y, m)

\* A, X, Y, SP and the memory operand each take every byte value, all five
\* different in each state; transfers and flag instructions start from every
\* flag combination, the rest from all flags clear and all flags set; flag
\* instructions also run at the last address, 0xFFFF
InitRegister ==
    \E opc \in LoadOpcodes \cup StepRegisterOpcodes \cup StepMemoryOpcodes
               \cup TransferOpcodes \cup FlagOpcodes,
       v \in 0 .. 255, f \in FlagStates, pc \in {768, 65535} :
        /\ opc \notin TransferOpcodes \cup FlagOpcodes => f \in {AllFlags(0), AllFlags(1)}
        /\ pc = 65535 => (opc \in FlagOpcodes /\ v \in EdgeOperands)
        /\ Start(RegisterProgram(opc, pc, (v + 85) % 256, (v + 170) % 256, (v + 119) % 256),
                 [PC |-> pc, A |-> v, X |-> (v + 85) % 256, Y |-> (v + 170) % 256,
                  SP |-> (v + 51) % 256, flags |-> f],
                 NoDevices)

SpecRegister == InitRegister /\ [][NextCpu]_vars

\* The registers of r other than PC, without the register named dest
OtherRegisters(r, dest) ==
    [n \in {"A", "X", "Y", "SP"} \ {dest} |-> r[n]]

\* The destination register of a load, step or transfer mnemonic; none for INC
\* and DEC, whose destination is in memory
Destination(mnem) ==
    CASE mnem \in {"LDA", "TXA", "TYA"} -> "A"
      [] mnem \in {"LDX", "INX", "DEX", "TAX", "TSX"} -> "X"
      [] mnem \in {"LDY", "INY", "DEY", "TAY"} -> "Y"
      [] mnem = "TXS" -> "SP"
      [] OTHER -> "none"

\* The byte the last step's load, increment or decrement must produce
StepResult ==
    CASE StepOpcode.mnem \in {"LDA", "LDX", "LDY"} ->
            IF StepOpcode.mode = "IMMEDIATE" THEN StepOperand
            ELSE RamAt(Pre.ram, StepTarget)
      [] StepOpcode.mnem = "INX" -> (Pre.regs.X + 1) % 256
      [] StepOpcode.mnem = "INY" -> (Pre.regs.Y + 1) % 256
      [] StepOpcode.mnem = "DEX" -> (Pre.regs.X - 1) % 256
      [] StepOpcode.mnem = "DEY" -> (Pre.regs.Y - 1) % 256
      [] StepOpcode.mnem = "INC" -> (RamAt(Pre.ram, StepTarget) + 1) % 256
      [] StepOpcode.mnem = "DEC" -> (RamAt(Pre.ram, StepTarget) - 1) % 256

\* C15: after a whole step that executes LDA, LDX, LDY (the destination gets the
\* operand byte), INX, INY, DEX, DEY (the register plus or minus 1 mod 256) or
\* INC, DEC (the memory byte at the effective address plus or minus 1 mod 256):
\* the destination holds that result byte, Z is 1 iff it is 0, N is its bit 7,
\* and C, V, I, D and every register other than the destination and PC are as
\* before; 0xFF + 1 gives 0x00 with Z = 1 and 0x00 - 1 gives 0xFF with N = 1.
C15_LoadStepAfterStep ==
    (last.op = "step" /\ StepOpcode.mnem \in {"LDA", "LDX", "LDY", "INX", "INY", "DEX",
                                               "DEY", "INC", "DEC"}) =>
        LET dest == Destination(StepOpcode.mnem)
        IN  /\ ~aborted
            /\ IF dest = "none"
               THEN /\ RamAt(ram, StepTarget) = StepResult
                    /\ RamDiff(ram, Pre.ram) \subseteq {StepTarget}
               ELSE /\ regs[dest] = StepResult
                    /\ ram = Pre.ram
            /\ OtherRegisters(regs, dest) = OtherRegisters(Pre.regs, dest)
            /\ regs.flags.Z = Bool(StepResult = 0)
            /\ regs.flags.N = Bit(StepResult, 7)
            /\ regs.flags.C = Pre.regs.flags.C
            /\ regs.flags.V = Pre.regs.flags.V
            /\ regs.flags.I = Pre.regs.flags.I
            /\ regs.flags.D = Pre.regs.flags.D
            /\ (StepOpcode.mnem = "INX" /\ Pre.regs.X = 255) =>
                  (regs.X = 0 /\ regs.flags.Z = 1)
            /\ (StepOpcode.mnem = "DEY" /\ Pre.regs.Y = 0) =>
                  (regs.Y = 255 /\ regs.flags.N = 1)

\* C15 witness: DEC $1234,X stepped on the byte 0x00 with all flags clear stored
\* 0xFF and set only N
C15_Witness ==
    /\ last.op = "step"
    /\ StepOpcode = [mnem |-> "DEC", byte |-> 222, mode |-> "ABS_X"]
    /\ RamAt(Pre.ram, StepTarget) = 0
    /\ Pre.regs.flags = AllFlags(0)
    /\ RamAt(ram, StepTarget) = 255
    /\ regs.flags = [C |-> 0, Z |-> 0, I |-> 0, D |-> 0, V |-> 0, N |-> 1]
    /\ OtherRegisters(regs, "none") = OtherRegisters(Pre.regs, "none")

\* The source register of a transfer mnemonic
TransferSource(mnem) ==
    CASE mnem \in {"TAX", "TAY"} -> "A"
      [] mnem \in {"TXA", "TXS"} -> "X"
      [] mnem = "TYA" -> "Y"
      [] mnem = "TSX" -> "SP"

\* C16: after a whole step that executes TAX, TAY, TXA, TYA or TSX the
\* destination holds the source register's value, Z is 1 iff it is 0, N is its
\* bit 7, and C, V, I, D are as before; after TXS, SP holds X and all six flags
\* are exactly as before the step, for every X and every prior flag combination.
C16_TransferAfterStep ==
    (last.op = "step" /\ StepOpcode.mnem \in {"TAX", "TAY", "TXA", "TYA", "TSX", "TXS"}) =>
        LET dest == Destination(StepOpcode.mnem)
            val  == Pre.regs[TransferSource(StepOpcode.mnem)]
        IN  /\ ~aborted
            /\ regs[dest] = val
            /\ IF StepOpcode.mnem = "TXS"
               THEN regs.flags = Pre.regs.flags
               ELSE /\ regs.flags.Z = Bool(val = 0)
                    /\ regs.flags.N = Bit(val, 7)
                    /\ regs.flags.C = Pre.regs.flags.C
                    /\ regs.flags.V = Pre.regs.flags.V
                    /\ regs.flags.I = Pre.regs.flags.I
                    /\ regs.flags.D = Pre.regs.flags.D

\* C16 witness: TXS stepped with X = 0x00, Z clear and N set moved 0x00 to SP and
\* left Z clear and N set
C16_Witness ==
    /\ last.op = "step"
    /\ StepOpcode = [mnem |-> "TXS", byte |-> 154, mode |-> "IMPLIED"]
    /\ Pre.regs.X = 0
    /\ Pre.regs.SP # 0
    /\ Pre.regs.flags = [C |-> 1, Z |-> 0, I |-> 0, D |-> 1, V |-> 0, N |-> 1]
    /\ regs.SP = 0
    /\ regs.flags = Pre.regs.flags

\* The flags f after the flag instruction mnem, by the instruction table
FlagsAfter(mnem, f) ==
    CASE mnem = "CLC" -> [f EXCEPT !.C = 0]
      [] mnem = "SEC" -> [f EXCEPT !.C = 1]
      [] mnem = "CLD" -> [f EXCEPT !.D = 0]
      [] mnem = "SED" -> [f EXCEPT !.D = 1]
      [] mnem = "CLI" -> [f EXCEPT !.I = 0]
      [] mnem = "SEI" -> [f EXCEPT !.I = 1]
      [] mnem = "CLV" -> [f EXCEPT !.V = 0]
      [] mnem = "NOP" -> f

\* C19: after a whole step that executes CLC, SEC, CLD, SED, CLI, SEI or CLV,
\* its own flag is cleared or set (C, C, D, D, I, I, V) and the other five are
\* as before; after NOP all six are as before; for all eight A, X, Y, SP and
\* every memory byte are unchanged and PC has advanced by exactly 1.
C19_FlagInstructionAfterStep ==
    (last.op = "step" /\ StepOpcode.mnem \in {"CLC", "SEC", "CLD", "SED", "CLI", "SEI",
                                               "CLV", "NOP"}) =>
        /\ ~aborted
        /\ regs.flags = FlagsAfter(StepOpcode.mnem, Pre.regs.flags)
        /\ OtherRegisters(regs, "none") = OtherRegisters(Pre.regs, "none")
        /\ ram = Pre.ram
        /\ \A i \in DOMAIN trace : trace[i].op # "w"
        /\ regs.PC = (Pre.regs.PC + 1) % 65536

\* C19 witness: CLV stepped at 0xFFFF with all flags set cleared V alone and
\* moved PC to 0x0000
C19_Witness ==
    /\ last.op = "step"
    /\ StepOpcode = [mnem |-> "CLV", byte |-> 184, mode |-> "IMPLIED"]
    /\ Pre.regs.PC = 65535
    /\ Pre.regs.flags = AllFlags(1)
    /\ regs.flags = [C |-> 1, Z |-> 1, I |-> 1, D |-> 1, V |-> 0, N |-> 1]
    /\ regs.PC = 0

----------------------------------------------------------------------------
(* STA, STX and STY in all their modes, with RAM and devices at the target  *)
(* and under the instruction.                                               *)

\* STA zpg, zpg,X, abs, abs,X, abs,Y, (zp,X), (zp),Y; STX zpg, zpg,Y, abs;
\* STY zpg, zpg,X, abs
StoreOpcodes == {133, 149, 141, 157, 153, 129, 145} \cup {134, 150, 142} \cup {132, 148, 140}

\* The page tables of MapConfigs, and one device on pages 0x00 and 0xC0
StoreMaps == MapConfigs \cup {[p \in {0, 192} |-> 1]}

InitStore ==
    \E opc \in StoreOpcodes, pc \in TestPCs, lo \in OperandLo, hi \in OperandHi,
       x \in IndexVals, y \in IndexVals, b \in {0, 1}, pd \in StoreMaps :
        Start(Program(pc, opc, lo, hi),
              [PC |-> pc, A |-> 165 - b, X |-> x, Y |-> y, SP |-> 253, flags |-> AllFlags(b)],
              pd)

SpecStore == InitStore /\ [][NextCpu]_vars

\* The byte a routed read of addr returned in the state pre
BusByte(pre, addr) ==
    IF Mapped(pre.page_device, addr)
    THEN pre.dev[PageAt(pre.page_device, U16(addr) \div 256)].read_val
    ELSE RamAt(pre.ram, U16(addr))

\* The operand bytes and the zero page as routed reads returned them
BusImage(pre, pc) ==
    [a \in (0 .. 255) \cup {U16(pc + 1), U16(pc + 2)} |-> BusByte(pre, a)]

\* The effective address of the last step's instruction, by the addressing-mode
\* table applied to the bytes the bus returned
BusTarget ==
    TableEA(StepOpcode.mode, BusImage(Pre, Pre.regs.PC), Pre.regs.PC, Pre.regs.X, Pre.regs.Y)

\* The register a store mnemonic writes, as it was before the step
StoredRegister ==
    CASE StepOpcode.mnem = "STA" -> Pre.regs.A
      [] StepOpcode.mnem = "STX" -> Pre.regs.X
      [] StepOpcode.mnem = "STY" -> Pre.regs.Y

StoreStepped == last.op = "step" /\ StepOpcode.mnem \in {"STA", "STX", "STY"}

\* The last step's operand bytes and, in the indirect modes, zero-page pointer
\* bytes were in unmapped RAM
OperandBytesInRam ==
    /\ \A i \in 1 .. (InstrLen(StepOpcode.mode) - 1) :
          ~Mapped(Pre.page_device, Pre.regs.PC + i)
    /\ StepOpcode.mode \in {"X_IND", "IND_Y"} => ~Mapped(Pre.page_device, 0)

\* The one device write of the register byte at the effective address
OneDeviceWrite ==
    <<[op |-> "w", addr |-> BusTarget, val |-> StoredRegister,
       dev |-> PageAt(Pre.page_device, BusTarget \div 256)]>>

\* What every store leaves alone: memory other than the effective address, the
\* six flags, A, X, Y and SP; and the register byte in unmapped RAM at the
\* effective address
StoreFrame ==
    /\ ~aborted
    /\ RamDiff(ram, Pre.ram) \subseteq {BusTarget}
    /\ ~Mapped(Pre.page_device, BusTarget) => RamAt(ram, BusTarget) = StoredRegister
    /\ Mapped(Pre.page_device, BusTarget) => ram = Pre.ram
    /\ regs.flags = Pre.regs.flags
    /\ OtherRegisters(regs, "none") = OtherRegisters(Pre.regs, "none")

\* C17 (the claim as stated): STA, STX and STY in every addressing mode write the
\* register byte to the effective address and nothing else: only the memory byte
\* at the effective address may change, the six flags and A, X, Y, SP are
\* unchanged, and whenever the effective address is in a device-mapped page the
\* step performs exactly one device write (that address, that register value)
\* and no device read.
C17_StoreOneDeviceWrite ==
    StoreStepped =>
        /\ StoreFrame
        /\ Mapped(Pre.page_device, BusTarget) => DeviceCalls(trace) = OneDeviceWrite

\* C17 (amended): as above, but the step performs exactly one device write and
\* no device read when the effective address is in a device-mapped page and the
\* instruction's operand bytes and, in the indirect modes, its zero-page pointer
\* bytes are in unmapped RAM.
C17_StoreOneDeviceWriteFromRam ==
    StoreStepped =>
        /\ StoreFrame
        /\ (Mapped(Pre.page_device, BusTarget) /\ OperandBytesInRam) =>
              /\ DeviceCalls(trace) = OneDeviceWrite
              /\ \A d \in DevIds : dev[d].read_count = Pre.dev[d].read_count

\* C17 witness: STA ($F0,X) stepped in RAM with X = 0x10 and the pointer at
\* 0x00 holding 0xC010, a device on page 0xC0: one device write of A at 0xC010
C17_Witness ==
    /\ StoreStepped
    /\ StepOpcode = [mnem |-> "STA", byte |-> 129, mode |-> "X_IND"]
    /\ Pre.regs.PC = 768
    /\ Pre.regs.X = 16
    /\ BusTarget = 49168
    /\ OperandBytesInRam
    /\ PageAt(Pre.page_device, 192) = 1
    /\ DeviceCalls(trace) = <<[op |-> "w", addr |-> 49168, val |-> Pre.regs.A, dev |-> 1]>>
    /\ dev[1].write_count = 1
    /\ ram = Pre.ram

----------------------------------------------------------------------------
(* The eight branches, stepped from every offset byte and flag state.       *)

\* BPL, BMI, BVC, BVS, BCC, BCS, BNE, BEQ
BranchOpcodes == {16, 48, 80, 112, 144, 176, 208, 240}

\* Addresses a branch is placed at: the first and last addresses, where the
\* target and the offset byte's address wrap, and places in between
BranchPCs == {0, 126, 768, 65407, 65534, 65535}

\* The branch opc at pc and its offset byte at the next address mod 2^16
BranchProgram(opc, pc, offset) ==
    StoreBytes(StoreBytes(EmptyRam, pc, <<opc>>), (pc + 1) % 65536, <<offset>>)

InitBranch ==
    \E opc \in BranchOpcodes, pc \in BranchPCs, offset \in 0 .. 255, f \in FlagStates :
        /\ f.I = f.C /\ f.D = 1 - f.Z
        /\ Start(BranchProgram(opc, pc, offset),
                 [PC |-> pc, A |-> offset, X |-> 85, Y |-> 170, SP |-> 253, flags |-> f],
                 NoDevices)

SpecBranch == InitBranch /\ [][NextCpu]_vars

\* The condition of a branch mnemonic in the flags f
BranchCondition(mnem, f) ==
    CASE mnem = "BCC" -> f.C = 0
      [] mnem = "BCS" -> f.C = 1
      [] mnem = "BEQ" -> f.Z = 1
      [] mnem = "BNE" -> f.Z = 0
      [] mnem = "BMI" -> f.N = 1
      [] mnem = "BPL" -> f.N = 0
      [] mnem = "BVC" -> f.V = 0
      [] mnem = "BVS" -> f.V = 1

\* The offset byte as a signed number
sign_extend8(b) == IF b < 128 THEN b ELSE b - 256

\* C20: a branch is taken iff its condition holds (BCC C=0, BCS C=1, BEQ Z=1,
\* BNE Z=0, BMI N=1, BPL N=0, BVC V=0, BVS V=1); taken, the new PC is
\* (PC + 2 + sign_extend8(offset)) mod 2^16; not taken, it is (PC + 2) mod 2^16;
\* either way no flag, no register other than PC and no memory byte changes.
C20_BranchAfterStep ==
    (last.op = "step" /\ StepOpcode.mnem \in {"BCC", "BCS", "BEQ", "BNE", "BMI", "BPL",
                                               "BVC", "BVS"}) =>
        LET pc     == Pre.regs.PC
            offset == RamAt(Pre.ram, (pc + 1) % 65536)
        IN  /\ ~aborted
            /\ regs.PC = IF BranchCondition(StepOpcode.mnem, Pre.regs.flags)
                         THEN (pc + 2 + sign_extend8(offset)) % 65536
                         ELSE (pc + 2) % 65536
            /\ regs.flags = Pre.regs.flags
            /\ OtherRegisters(regs, "none") = OtherRegisters(Pre.regs, "none")
            /\ ram = Pre.ram

\* C20 witness: BMI with offset 0x80 stepped at 0x0000 with N set went back
\* across address 0 to 0xFF82
C20_Witness ==
    /\ last.op = "step"
    /\ StepOpcode = [mnem |-> "BMI", byte |-> 48, mode |-> "REL"]
    /\ Pre.regs.PC = 0
    /\ RamAt(Pre.ram, 1) = 128
    /\ Pre.regs.flags.N = 1
    /\ regs.PC = 65410
    /\ regs.flags = Pre.regs.flags

----------------------------------------------------------------------------
(* Programs of several instructions, run as the tests run them: the image   *)
(* and registers are set up, then run_instr is called a number of times.    *)

\* The longest test: 256 LDA/PHA pairs and 256 PLA
MaxRun == 768

\* Before the first run_instr: todo calls are still to be made; start keeps the
\* registers the test began with, shadow the pushes not yet pulled
StartRun(image, r, todo) ==
    /\ ram = image
    /\ regs = r
    /\ page_device = NoDevices
    /\ dev = [d \in DevIds |-> NewDevice(d)]
    /\ org_ = 0
    /\ aborted = FALSE
    /\ oob = {}
    /\ labels_ = [n \in {} |-> 0]
    /\ trace = <<>>
    /\ last = [op |-> "init", todo |-> todo, start |-> r, shadow |-> <<>>,
               pulled |-> <<>>]
    /\ nops = 0

\* The mnemonic at the PC of r, "none" for an undocumented byte
MnemonicAt(r, image) ==
    IF Documented(RamAt(image, r.PC)) THEN byte_to_opcode(RamAt(image, r.PC)).mnem
    ELSE "none"

Pushers == {"JSR", "BRK", "PHA", "PHP"}

Pullers == {"RTS", "RTI", "PLA", "PLP"}

\* The pushes not yet pulled after the instruction at the PC of r: a pushing
\* instruction adds its mnemonic and the registers it started from, a pulling
\* one takes the latest away
ShadowAfter(shadow, mnem, r) ==
    IF mnem \in Pushers THEN Append(shadow, [mnem |-> mnem, regs |-> r])
    ELSE IF mnem \in Pullers /\ shadow # <<>> THEN SubSeq(shadow, 1, Len(shadow) - 1)
    ELSE shadow

\* The push a pulling instruction answers, as a sequence of at most one
PulledBy(shadow, mnem) ==
    IF mnem \in Pullers /\ shadow # <<>> THEN <<shadow[Len(shadow)]>> ELSE <<>>

\* One of the test's calls of run_instr(regs, mem)
RunStep ==
    /\ ~aborted /\ nops < MaxRun /\ last.todo > 0
    /\ Stepped(run_instr(regs, World))
    /\ last' = [op |-> "step", pre |-> Snapshot, todo |-> last.todo - 1,
                start |-> last.start,
                shadow |-> ShadowAfter(last.shadow, MnemonicAt(regs, ram), regs),
                pulled |-> PulledBy(last.shadow, MnemonicAt(regs, ram))]
    /\ nops' = nops + 1
    /\ UNCHANGED <<org_, oob, labels_>>

NextRun == RunStep

\* Registers of a test that sets only PC and SP
RegsAt(pc, sp, f) == [PC |-> pc, A |-> 17, X |-> 85, Y |-> 170, SP |-> sp, flags |-> f]

\* Bytes stored one by one, each address taken mod 2^16
RECURSIVE Poke(_, _)
Poke(image, stores) ==
    IF stores = <<>> THEN image
    ELSE Poke(StoreBytes(image, stores[1][1] % 65536, <<stores[1][2]>>), Tail(stores))

\* High bytes of the pointers and targets tried: zero page, a page in the
\* middle, the last page
JumpPages == {0, 32, 255}

\* JMP $hhll (0x4C) at 0x300
JumpAbsolute ==
    \E lo \in 0 .. 255, hi \in JumpPages, b \in {0, 1} :
        StartRun(StoreBytes(EmptyRam, 768, <<76, lo, hi>>), RegsAt(768, 253, AllFlags(b)), 1)

\* JMP ($hhll) (0x6C) at 0x300, with 0x56 after the pointer, the target's high
\* byte th at the start-of-page wrap of pointer + 1, and its low byte at the
\* pointer
JumpIndirect ==
    \E lo \in 0 .. 255, hi \in JumpPages, th \in {18, 202}, b \in {0, 1} :
        StartRun(Poke(StoreBytes(EmptyRam, 768, <<108, lo, hi>>),
                      <<<<256 * hi + lo + 1, 86>>, <<256 * hi + ((lo + 1) % 256), th>>,
                        <<256 * hi + lo, 52>>>>),
                 RegsAt(768, 253, AllFlags(b)), 1)


\* Addresses a JSR or BRK is placed at: ordinary, inside the stack page, and
\* the two where PC + 2 or the operand bytes pass 0xFFFF
CallSites == {768, 496, 65533, 65534}

\* JSR $2000 (0x20) at p; the subroutine at 0x2000 is RTS (0x60) alone, or
\* PHA, PLA (0x48, 0x68) and then RTS
CallAndReturn ==
    \E p \in CallSites, sp \in 0 .. 255, body \in {<<96>>, <<72, 104, 96>>} :
        StartRun(Poke(StoreBytes(EmptyRam, 8192, body),
                      <<<<p, 32>>, <<p + 1, 0>>, <<p + 2, 32>>>>),
                 RegsAt(p, sp, AllFlags(0)), 1 + Len(body))

\* Depths of the nested calls tried; 128 return addresses fill the stack page
NestDepths == {2, 3, 128}

\* Level i of the chain is at 0x1000 + 4 * i: JSR to level i + 1, then RTS; the
\* last level is RTS alone
NestByte(a, depth) ==
    LET i == (a - 4096) \div 4
        k == (a - 4096) % 4
    IN  IF i = depth THEN (IF k = 0 THEN 96 ELSE 0)
        ELSE CASE k = 0 -> 32
               [] k = 1 -> (4096 + 4 * (i + 1)) % 256
               [] k = 2 -> (4096 + 4 * (i + 1)) \div 256
               [] k = 3 -> 96

NestImage(depth) ==
    [a \in {x \in 4096 .. 4096 + 4 * depth : NestByte(x, depth) # 0} |-> NestByte(a, depth)]

\* depth JSRs, then the depth RTSs that answer them
NestedCalls ==
    \E depth \in NestDepths, sp \in {255, 128, 1, 0} :
        StartRun(NestImage(depth), RegsAt(4096, sp, AllFlags(0)), 2 * depth)

\* BRK (0x00) at p with the IRQ/BRK vector at 0xFFFE pointing at an RTI (0x40);
\* the BRK at 0xFFFF is itself the vector's high byte
BreakSites ==
    {[p |-> 768, vector |-> 51966], [p |-> 496, vector |-> 51966],
     [p |-> 65533, vector |-> 51966], [p |-> 65535, vector |-> 128]}

BreakImage(site) ==
    Poke(EmptyRam, <<<<65534, site.vector % 256>>, <<65535, site.vector \div 256>>,
                     <<site.vector, 64>>>>)

BreakAndReturn ==
    \/ \E sp \in 0 .. 255, f \in FlagStates :
           StartRun(BreakImage([p |-> 768, vector |-> 51966]), RegsAt(768, sp, f), 2)
    \/ \E site \in BreakSites, sp \in {0, 1, 2, 255}, b \in {0, 1} :
           StartRun(BreakImage(site), RegsAt(site.p, sp, AllFlags(b)), 2)

\* RTI (0x40) at 0x300 over a stack that holds the status byte s and the word
\* ret above SP
ReturnFromInterrupt ==
    \E s \in 0 .. 255, sp \in {80, 252, 253, 254, 255}, ret \in {0, 4660, 65535} :
        StartRun(Poke(StoreBytes(EmptyRam, 768, <<64>>),
                      <<<<256 + ((sp + 1) % 256), s>>,
                        <<256 + ((sp + 2) % 256), ret % 256>>,
                        <<256 + ((sp + 3) % 256), ret \div 256>>>>),
                 RegsAt(768, sp, AllFlags(0)), 1)

\* Instructions that change flags between a PHP and its PLP: SEC, SED, SEI,
\* LDA #$80, or CLC, CLD, CLI, CLV, LDA #$00
FlagChangers == {<<56, 248, 120, 169, 128>>, <<24, 216, 88, 184, 169, 0>>}

\* The number of instructions in a sequence of implied instructions and
\* two-byte LDA immediates
RECURSIVE InstructionCount(_)
InstructionCount(bytes) ==
    IF bytes = <<>> THEN 0
    ELSE 1 + InstructionCount(SubSeq(bytes, IF bytes[1] = 169 THEN 3 ELSE 2, Len(bytes)))

\* PHP (0x08), the flag changers, PLP (0x28) at 0x300
PushPullStatus ==
    \E f \in FlagStates, sp \in {255, 128, 1, 0}, between \in FlagChangers :
        StartRun(StoreBytes(EmptyRam, 768, <<8>> \o between \o <<40>>),
                 RegsAt(768, sp, f), 2 + InstructionCount(between))

\* PLP at 0x300 over a stack that holds the byte s above SP
PullStatus ==
    \E s \in 0 .. 255, sp \in {80, 254, 255} :
        StartRun(Poke(StoreBytes(EmptyRam, 768, <<40>>), <<<<256 + ((sp + 1) % 256), s>>>>),
                 RegsAt(768, sp, AllFlags(0)), 1)

\* Numbers of bytes pushed before they are pulled; 256 fill the stack page
PushDepths == {1, 2, 3, 256}

\* The i-th byte pushed: every byte value occurs among 256 of them
PushedValue(seed, i) == (seed + 85 * i) % 256

\* n times LDA #v (0xA9), PHA (0x48), then n times PLA (0x68)
PushPullBytes(n, seed) ==
    [i \in 1 .. 4 * n |->
        IF i > 3 * n THEN 104
        ELSE CASE (i - 1) % 3 = 0 -> 169
               [] (i - 1) % 3 = 1 -> PushedValue(seed, ((i - 1) \div 3) + 1)
               [] (i - 1) % 3 = 2 -> 72]

PushPullAccumulator ==
    \E n \in PushDepths, seed \in {0, 128}, sp \in {255, 127, 0}, b \in {0, 1} :
        StartRun(StoreBytes(EmptyRam, 768, PushPullBytes(n, seed)),
                 RegsAt(768, sp, AllFlags(b)), 3 * n)
InitRun ==
    \/ JumpAbsolute
    \/ JumpIndirect
    \/ CallAndReturn
    \/ NestedCalls
    \/ BreakAndReturn
    \/ ReturnFromInterrupt
    \/ PushPullStatus
    \/ PullStatus
    \/ PushPullAccumulator

SpecRun == InitRun /\ [][NextRun]_vars

\* The operand word of the last step's instruction
StepWord ==
    RamAt(Pre.ram, (Pre.regs.PC + 1) % 65536) + 256 * RamAt(Pre.ram, (Pre.regs.PC + 2) % 65536)

\* No flag, no register other than PC and no memory byte changed in the last step
OnlyPCChanged ==
    /\ regs.flags = Pre.regs.flags
    /\ OtherRegisters(regs, "none") = OtherRegisters(Pre.regs, "none")
    /\ ram = Pre.ram

\* C21: JMP ABS sets PC to the operand word; JMP INDIRECT with pointer p sets PC
\* low to mem[p] and PC high to mem[(p & 0xFF00) | ((p + 1) & 0x00FF)]: from
\* p + 1 when p's low byte is not 0xFF, from the start of p's page when it is
\* (mem[0x20FF] = 0x34, mem[0x2100] = 0x56, mem[0x2000] = 0x12: JMP (0x20FF)
\* gives 0x1234, not 0x5634); neither changes a flag, another register, SP or
\* memory.
C21_JumpAfterStep ==
    (last.op = "step" /\ StepOpcode.mnem = "JMP") =>
        LET p == StepWord
        IN  /\ ~aborted
            /\ OnlyPCChanged
            /\ StepOpcode.mode = "ABS" => regs.PC = p
            /\ StepOpcode.mode = "INDIRECT" =>
                  /\ regs.PC % 256 = RamAt(Pre.ram, p)
                  /\ regs.PC \div 256 =
                        RamAt(Pre.ram, (p \div 256) * 256 + ((p + 1) % 256))
                  /\ p % 256 # 255 => regs.PC \div 256 = RamAt(Pre.ram, p + 1)
                  /\ p % 256 = 255 => regs.PC \div 256 = RamAt(Pre.ram, p - 255)
                  /\ (p = 8447 /\ RamAt(Pre.ram, 8447) = 52 /\ RamAt(Pre.ram, 8448) = 86
                      /\ RamAt(Pre.ram, 8192) = 18) => regs.PC = 4660

\* C21 witness: JMP (0x20FF) stepped with 0x34 at 0x20FF, 0x56 at 0x2100 and
\* 0x12 at 0x2000 went to 0x1234
C21_Witness ==
    /\ last.op = "step"
    /\ StepOpcode = [mnem |-> "JMP", byte |-> 108, mode |-> "INDIRECT"]
    /\ StepWord = 8447
    /\ RamAt(Pre.ram, 8447) = 52
    /\ RamAt(Pre.ram, 8448) = 86
    /\ RamAt(Pre.ram, 8192) = 18
    /\ regs.PC = 4660
    /\ OnlyPCChanged

\* The byte at 0x0100 | sp of the stack page
StackAt(image, sp) == RamAt(image, 256 + (sp % 256))

\* The last step's JSR pushed over one of its own operand bytes
OperandPushedOver ==
    {(Pre.regs.PC + 1) % 65536, (Pre.regs.PC + 2) % 65536}
        \cap {256 + Pre.regs.SP, 256 + ((Pre.regs.SP - 1) % 256)} # {}

\* The stack bytes, SP and the frame of a JSR at p, and what the RTS answering
\* a JSR leaves
JsrPushes ==
    (last.op = "step" /\ StepOpcode.mnem = "JSR") =>
        LET p  == Pre.regs.PC
            sp == Pre.regs.SP
        IN  /\ ~aborted
            /\ StackAt(ram, sp) = ((p + 2) % 65536) \div 256
            /\ StackAt(ram, sp - 1) = (p + 2) % 256
            /\ regs.SP = (sp - 2) % 256
            /\ regs.flags = Pre.regs.flags
            /\ OtherRegisters(regs, "SP") = OtherRegisters(Pre.regs, "SP")
            /\ \A a \in (DOMAIN ram \cup DOMAIN Pre.ram)
                        \ {256 + sp, 256 + ((sp - 1) % 256)} :
                  RamAt(ram, a) = RamAt(Pre.ram, a)

RtsReturns ==
    (last.op = "step" /\ StepOpcode.mnem = "RTS" /\ last.pulled # <<>>
        /\ last.pulled[1].mnem = "JSR") =>
        /\ ~aborted
        /\ regs.PC = (last.pulled[1].regs.PC + 3) % 65536
        /\ regs.SP = last.pulled[1].regs.SP
        /\ ram = Pre.ram

\* C22 as stated: with the stack page in RAM, a JSR at p with stack pointer SP
\* writes the high byte of (p + 2) at 0x0100 | SP and the low byte at
\* 0x0100 | ((SP - 1) mod 256), leaves SP = (SP - 2) mod 256 and PC = the
\* target in its operand bytes; the RTS answering it leaves
\* PC = (p + 3) mod 2^16 and SP as before the JSR, nested calls returning in
\* LIFO order.
C22_JsrRts ==
    /\ JsrPushes
    /\ RtsReturns
    /\ (last.op = "step" /\ StepOpcode.mnem = "JSR") => regs.PC = StepWord

\* What holds of every JSR and RTS: the same, with PC = the target for a JSR
\* whose operand bytes are not among the two stack bytes it writes, and PC = the
\* word in the operand bytes after the pushes in every case.
JsrRtsOperandKept ==
    /\ JsrPushes
    /\ RtsReturns
    /\ (last.op = "step" /\ StepOpcode.mnem = "JSR") =>
          /\ ~OperandPushedOver => regs.PC = StepWord
          /\ regs.PC = RamAt(ram, (Pre.regs.PC + 1) % 65536)
                         + 256 * RamAt(ram, (Pre.regs.PC + 2) % 65536)

\* The outermost of 128 nested calls, entered with SP = 0x00, returns to the
\* byte after its JSR with SP = 0x00 again
NestedReturnWitness ==
    /\ last.op = "step" /\ StepOpcode.mnem = "RTS"
    /\ last.pulled # <<>> /\ last.pulled[1].mnem = "JSR"
    /\ last.pulled[1].regs.SP = 0 /\ last.pulled[1].regs.PC = 4096
    /\ nops = 256
    /\ regs.PC = 4099 /\ regs.SP = 0

\* The status byte packed C, Z, I, D, B, 1, V, N from bit 0, with B = 1
StatusByte(f) ==
    f.C + 2 * f.Z + 4 * f.I + 8 * f.D + 16 + 32 + 64 * f.V + 128 * f.N

\* The flags a status byte s holds in bits 0, 1, 2, 3, 6 and 7
StatusFlags(s) ==
    [C |-> s % 2, Z |-> (s \div 2) % 2, I |-> (s \div 4) % 2, D |-> (s \div 8) % 2,
     V |-> (s \div 64) % 2, N |-> (s \div 128) % 2]

\* The RAM bytes outside the stack slots sp, sp - 1, ..., sp - n + 1 are as
\* before the last step
OnlyPushed(sp, n) ==
    \A a \in (DOMAIN ram \cup DOMAIN Pre.ram) \ {256 + ((sp - i) % 256) : i \in 0 .. n - 1} :
        RamAt(ram, a) = RamAt(Pre.ram, a)

\* C23: a BRK at p pushes the high byte of (p + 2), the low byte of (p + 2) and
\* the status byte packed C, Z, I, D, B, 1, V, N with B = 1 and bit 5 = 1,
\* leaves SP = (SP - 3) mod 256 and PC = read16(0xFFFE), and changes none of
\* the six flags, I included (BRK at 0x0300, SP = 0xF8, C = 1, N = 1, vector
\* 0xCAFE: PC = 0xCAFE, SP = 0xF5, mem[0x01F8] = 0x03, mem[0x01F7] = 0x02,
\* mem[0x01F6] = 0xB1).
C23_BrkAfterStep ==
    (last.op = "step" /\ StepOpcode.mnem = "BRK") =>
        LET p  == Pre.regs.PC
            sp == Pre.regs.SP
        IN  /\ ~aborted
            /\ StackAt(ram, sp) = ((p + 2) % 65536) \div 256
            /\ StackAt(ram, sp - 1) = (p + 2) % 256
            /\ StackAt(ram, sp - 2) = StatusByte(Pre.regs.flags)
            /\ (StackAt(ram, sp - 2) \div 16) % 4 = 3
            /\ regs.SP = (sp - 3) % 256
            /\ regs.PC = RamAt(Pre.ram, 65534) + 256 * RamAt(Pre.ram, 65535)
            /\ regs.flags = Pre.regs.flags
            /\ OtherRegisters(regs, "SP") = OtherRegisters(Pre.regs, "SP")
            /\ OnlyPushed(sp, 3)
            /\ (p = 768 /\ sp = 248 /\ RamAt(Pre.ram, 65534) = 254
                  /\ RamAt(Pre.ram, 65535) = 202
                  /\ Pre.regs.flags = [C |-> 1, Z |-> 0, I |-> 0, D |-> 0, V |-> 0, N |-> 1])
               => /\ regs.PC = 51966 /\ regs.SP = 245
                  /\ RamAt(ram, 504) = 3 /\ RamAt(ram, 503) = 2 /\ RamAt(ram, 502) = 177

\* BRK at 0x0300 with SP = 0xF8, C = 1 and N = 1 has gone through the vector
\* 0xCAFE and left 0x03, 0x02, 0xB1 on the stack
C23_Witness ==
    /\ last.op = "step" /\ StepOpcode.mnem = "BRK"
    /\ Pre.regs.PC = 768 /\ Pre.regs.SP = 248
    /\ Pre.regs.flags = [C |-> 1, Z |-> 0, I |-> 0, D |-> 0, V |-> 0, N |-> 1]
    /\ regs.PC = 51966 /\ regs.SP = 245 /\ regs.flags = Pre.regs.flags
    /\ RamAt(ram, 504) = 3 /\ RamAt(ram, 503) = 2 /\ RamAt(ram, 502) = 177

\* C24: RTI pulls the status byte and sets the six flags from its bits 0, 1,
\* 2, 3, 6 and 7 (bits 4 and 5 have no effect), then pulls PC low and PC high
\* and sets PC to that word, with no + 1, leaving SP = (SP + 3) mod 256; the
\* RTI that answers a BRK at p ends with PC = (p + 2) mod 2^16 and with SP and
\* all six flags as before the BRK.
C24_RtiAfterStep ==
    (last.op = "step" /\ StepOpcode.mnem = "RTI") =>
        LET sp == Pre.regs.SP
            s  == StackAt(Pre.ram, sp + 1)
        IN  /\ ~aborted
            /\ regs.flags = StatusFlags(s)
            /\ regs.flags = StatusFlags(s - (((s \div 16) % 4) * 16))
            /\ regs.PC = StackAt(Pre.ram, sp + 2) + 256 * StackAt(Pre.ram, sp + 3)
            /\ regs.SP = (sp + 3) % 256
            /\ OtherRegisters(regs, "SP") = OtherRegisters(Pre.regs, "SP")
            /\ ram = Pre.ram
            /\ (last.pulled # <<>> /\ last.pulled[1].mnem = "BRK") =>
                  /\ regs.PC = (last.pulled[1].regs.PC + 2) % 65536
                  /\ regs.SP = last.pulled[1].regs.SP
                  /\ regs.flags = last.pulled[1].regs.flags

\* The RTI answering a BRK at 0xFFFF, entered with SP = 0x01 and every flag
\* set, has returned to 0x0001 with SP and the flags restored
C24_Witness ==
    /\ last.op = "step" /\ StepOpcode.mnem = "RTI"
    /\ last.pulled # <<>> /\ last.pulled[1].mnem = "BRK"
    /\ last.pulled[1].regs.PC = 65535 /\ last.pulled[1].regs.SP = 1
    /\ regs.PC = 1 /\ regs.SP = 1 /\ regs.flags = AllFlags(1)

\* C25: PHP pushes the status byte with bit 4 = 1 and bit 5 = 1 and changes no
\* flag; PLP sets the six flags from bits 0, 1, 2, 3, 6 and 7 of the byte it
\* pulls, whatever the byte; the PLP that answers a PHP restores all six flags
\* and SP, whatever changed the flags in between.
C25_PhpPlpAfterStep ==
    /\ (last.op = "step" /\ StepOpcode.mnem = "PHP") =>
          /\ ~aborted
          /\ StackAt(ram, Pre.regs.SP) = StatusByte(Pre.regs.flags)
          /\ (StackAt(ram, Pre.regs.SP) \div 16) % 4 = 3
          /\ regs.flags = Pre.regs.flags
          /\ regs.SP = (Pre.regs.SP - 1) % 256
          /\ regs.PC = (Pre.regs.PC + 1) % 65536
          /\ OtherRegisters(regs, "SP") = OtherRegisters(Pre.regs, "SP")
          /\ OnlyPushed(Pre.regs.SP, 1)
    /\ (last.op = "step" /\ StepOpcode.mnem = "PLP") =>
          /\ ~aborted
          /\ regs.flags = StatusFlags(StackAt(Pre.ram, Pre.regs.SP + 1))
          /\ regs.SP = (Pre.regs.SP + 1) % 256
          /\ regs.PC = (Pre.regs.PC + 1) % 65536
          /\ OtherRegisters(regs, "SP") = OtherRegisters(Pre.regs, "SP")
          /\ ram = Pre.ram
          /\ (last.pulled # <<>> /\ last.pulled[1].mnem = "PHP") =>
                /\ regs.flags = last.pulled[1].regs.flags
                /\ regs.SP = last.pulled[1].regs.SP

\* A PLP has restored C = 0, Z = 1, I = 0, D = 0, V = 1, N = 0 and SP = 0x00
\* from the PHP before SEC, SED, SEI and LDA #$80, which had changed C, Z, N
\* and the others
C25_Witness ==
    /\ last.op = "step" /\ StepOpcode.mnem = "PLP"
    /\ last.pulled # <<>> /\ last.pulled[1].mnem = "PHP"
    /\ last.pulled[1].regs.SP = 0
    /\ Pre.regs.flags = [C |-> 1, Z |-> 0, I |-> 1, D |-> 1, V |-> 1, N |-> 1]
    /\ regs.flags = [C |-> 0, Z |-> 1, I |-> 0, D |-> 0, V |-> 1, N |-> 0]
    /\ regs.SP = 0

\* The run is n times LDA #v, PHA followed by n times PLA, from 0x300
PushPullRun == RamAt(ram, 768) = 169 /\ RamAt(ram, 770) = 72

\* C26: after n PHAs pushed v1..vn (A loaded in between), the n PLAs load
\* vn..v1 into A in that order; each PLA sets Z = (byte = 0) and N = bit 7 of
\* the byte it pulled; after the n-th PLA SP is as before the first PHA; PHA
\* changes no flag and no register other than SP and PC.
C26_PhaPlaAfterStep ==
    /\ (last.op = "step" /\ StepOpcode.mnem = "PHA") =>
          /\ ~aborted
          /\ StackAt(ram, Pre.regs.SP) = Pre.regs.A
          /\ regs.flags = Pre.regs.flags
          /\ OtherRegisters(regs, "SP") = OtherRegisters(Pre.regs, "SP")
          /\ regs.SP = (Pre.regs.SP - 1) % 256
          /\ regs.PC = (Pre.regs.PC + 1) % 65536
          /\ OnlyPushed(Pre.regs.SP, 1)
    /\ (last.op = "step" /\ StepOpcode.mnem = "PLA") =>
          /\ ~aborted
          /\ regs.A = StackAt(Pre.ram, Pre.regs.SP + 1)
          /\ regs.flags = [Pre.regs.flags EXCEPT !.Z = IF regs.A = 0 THEN 1 ELSE 0,
                                                 !.N = regs.A \div 128]
          /\ regs.SP = (Pre.regs.SP + 1) % 256
          /\ regs.PC = (Pre.regs.PC + 1) % 65536
          /\ OtherRegisters(regs, "A") = [OtherRegisters(Pre.regs, "A") EXCEPT !.SP = regs.SP]
          /\ ram = Pre.ram
          /\ (last.pulled # <<>> /\ last.pulled[1].mnem = "PHA") =>
                /\ regs.A = last.pulled[1].regs.A
                /\ regs.SP = last.pulled[1].regs.SP
          /\ PushPullRun =>
                /\ last.pulled # <<>> /\ last.pulled[1].mnem = "PHA"
                /\ regs.A = RamAt(ram, 769 + 3 * last.todo)
                /\ last.todo = 0 => last.shadow = <<>> /\ regs.SP = last.start.SP

\* The 256th PLA after 256 PHAs from SP = 0x7F has loaded the first byte
\* pushed, 0x55, and left SP = 0x7F
C26_Witness ==
    /\ last.op = "step" /\ StepOpcode.mnem = "PLA"
    /\ PushPullRun /\ nops = 768 /\ last.todo = 0
    /\ last.start.SP = 127 /\ regs.SP = 127
    /\ RamAt(ram, 769) = 85 /\ regs.A = 85
    /\ regs.flags.Z = 0 /\ regs.flags.N = 0

----------------------------------------------------------------------------
(* ADC undone by SBC                                                        *)

\* ADC #op (0x69) with carry-in cin, then SEC (0x38) when cin = 0 or CLC
\* (0x18) when cin = 1, then SBC #op (0xE9), at 0x300
InitInverse ==
    \E a \in 0 .. 255, op \in 0 .. 255, cin \in {0, 1} :
        StartRun(StoreBytes(EmptyRam, 768,
                            <<105, op, IF cin = 0 THEN 56 ELSE 24, 233, op>>),
                 [RegsAt(768, 253, AllFlags(0)) EXCEPT !.A = a, !.flags.C = cin], 3)

SpecInverse == InitInverse /\ [][NextRun]_vars

\* C30: for all A, op and cin, ADC op with carry-in cin, then C := 1 - cin,
\* then SBC op leaves A equal to the original A.
C30_AdcSbcInverse ==
    /\ (last.op = "step" /\ StepOpcode.mnem \in {"SEC", "CLC"} /\ nops = 2) =>
          regs.flags.C = 1 - last.start.flags.C
    /\ (last.op = "step" /\ StepOpcode.mnem = "SBC" /\ nops = 3) =>
          /\ ~aborted
          /\ Pre.regs.A = (last.start.A + StepOperand + last.start.flags.C) % 256
          /\ regs.A = last.start.A

\* 0xFF + 0xFF + 1 wrapped to 0xFF with carry out, CLC, and SBC #$FF has
\* given 0xFF back
C30_Witness ==
    /\ last.op = "step" /\ StepOpcode.mnem = "SBC" /\ nops = 3
    /\ last.start.A = 255 /\ StepOperand = 255 /\ last.start.flags.C = 1
    /\ Pre.regs.A = 255 /\ Pre.regs.flags.C = 0
    /\ regs.A = 255

----------------------------------------------------------------------------
(* The bus under map, reset and the 16-bit accesses                         *)

\* What the assembler emits before a reset
ResetEmits == {<<"LDA", "IMMEDIATE">>, <<"JMP", "ABS">>}

\* Bus operations and assembler operations on the same bus, in any order
NextBusAsm ==
    \/ NextBus
    \/ \E location \in TestOrigins : AsmOrg(location)
    \/ \E p \in ResetEmits, imm \in EmitWords : AsmEmit(p[1], p[2], imm)

SpecBusAsm == Init /\ [][NextBusAsm]_vars

\* The first and the last address of every page
PageEnds == {256 * p + lo : p \in Pages, lo \in {0, 255}}

\* C27: after Bus::reset(), whatever maps, writes, direct-index stores and
\* assembler operations came before, all 256 pages are unmapped and RAM is all
\* 0: read(a) = 0 for every address a, and neither read nor write calls a
\* device that was mapped before.
C27_ResetClearsBus ==
    last.op = "reset" =>
        /\ \A p \in Pages : PageAt(page_device, p) = 0
        /\ ram = EmptyRam
        /\ dev = Pre.dev
        /\ \A a \in PageEnds \cup TestAddrs :
              /\ RamAt(ram, a) = 0
              /\ read(World, a).val = 0
              /\ read(World, a).w.dev = dev
              /\ write(World, a, 85).dev = dev
              /\ RamAt(write(World, a, 85).ram, a) = 85

\* A reset of a bus that had a device on page 0xC0, written once, and a
\* nonzero RAM byte
C27_Witness ==
    /\ last.op = "reset"
    /\ PageAt(Pre.page_device, 192) # 0
    /\ Pre.ram # EmptyRam
    /\ page_device = [p \in {} |-> 0] /\ ram = EmptyRam
    /\ read(World, 49168).val = 0

\* C28: map(page, dev) changes the entry of that page and no other;
\* map(lo, hi, dev) ends for every lo and hi, hi = 0xFF included, and maps the
\* pages lo..hi inclusive and no other, none when lo > hi; the latest map of a
\* page wins, and a page has one device at most.
C28_MapChangesItsPages ==
    /\ last.op = "map" =>
          /\ \A p \in Pages :
                PageAt(page_device, p) =
                    IF p = last.page THEN last.d ELSE PageAt(Pre.page_device, p)
          /\ ram = Pre.ram /\ dev = Pre.dev
    /\ last.op = "mapRange" =>
          /\ \A p \in Pages :
                PageAt(page_device, p) =
                    IF last.lo <= p /\ p <= last.hi THEN last.d
                    ELSE PageAt(Pre.page_device, p)
          /\ last.lo > last.hi => page_device = Pre.page_device
          /\ ram = Pre.ram /\ dev = Pre.dev
    /\ \A p \in Pages : PageAt(page_device, p) \in {0} \cup DevIds

\* map(0xC0, 0xFF, device 2) over a page 0xFF that held device 1: pages 0xC0
\* to 0xFF hold device 2, page 0xBF none
C28_Witness ==
    /\ last.op = "mapRange" /\ last.lo = 192 /\ last.hi = 255 /\ last.d = 2
    /\ PageAt(Pre.page_device, 255) = 1
    /\ \A p \in 192 .. 255 : PageAt(page_device, p) = 2
    /\ PageAt(page_device, 191) = 0

\* Addresses and words of the 16-bit accesses: 0xFFFF wraps to 0x0000
WordAddrs == {16, 255, 65534, 65535}

WordVals == {51966, 255, 256}

\* The write16 just before, as a sequence of at most one
JustWrote == IF last.op = "write16" THEN <<[addr |-> last.addr, val |-> last.val]>> ELSE <<>>

DoRead16(addr) ==
    /\ Running
    /\ LET res == read16(World, addr)
       IN  /\ Commit(res.w)
           /\ last' = [op |-> "read16", addr |-> addr, ret |-> res.val, wrote |-> JustWrote,
                       pre |-> Snapshot]
    /\ nops' = nops + 1
    /\ UNCHANGED <<regs, org_, aborted, oob, labels_>>

DoWrite16(addr, val) ==
    /\ Running
    /\ Commit(write16(World, addr, val))
    /\ last' = [op |-> "write16", addr |-> addr, val |-> val, pre |-> Snapshot]
    /\ nops' = nops + 1
    /\ UNCHANGED <<regs, org_, aborted, oob, labels_>>

\* 16-bit and direct accesses to a bus with no device
NextWord ==
    \/ \E a \in WordAddrs : DoRead16(a)
    \/ \E a \in WordAddrs, w \in WordVals : DoWrite16(a, w)
    \/ \E a \in {0, 65535}, v \in TestVals : DoIndexSet(a, v)

SpecWord == Init /\ [][NextWord]_vars

\* C29: on unmapped RAM read16(a) is mem[a] | mem[(a + 1) mod 2^16] << 8 and
\* write16(a, w) stores the low byte of w at a and the high byte at
\* (a + 1) mod 2^16, so both wrap at 0xFFFF; read16(a) after write16(a, w)
\* returns w (write16(0xFFFE, 0xCAFE), then read16(0xFFFE) = 0xCAFE).
C29_Word16 ==
    /\ last.op = "read16" =>
          /\ last.ret = RamAt(Pre.ram, last.addr) + 256 * RamAt(Pre.ram, (last.addr + 1) % 65536)
          /\ ram = Pre.ram
          /\ (last.wrote # <<>> /\ last.wrote[1].addr = last.addr) =>
                last.ret = last.wrote[1].val
    /\ last.op = "write16" =>
          /\ RamAt(ram, last.addr) = last.val % 256
          /\ RamAt(ram, (last.addr + 1) % 65536) = last.val \div 256
          /\ \A a \in (DOMAIN ram \cup DOMAIN Pre.ram) \ {last.addr, (last.addr + 1) % 65536} :
                RamAt(ram, a) = RamAt(Pre.ram, a)
          /\ (last.addr = 65534 /\ last.val = 51966) =>
                RamAt(ram, 65534) = 254 /\ RamAt(ram, 65535) = 202
    /\ page_device = [p \in {} |-> 0] /\ dev = [d \in DevIds |-> NewDevice(d)]

\* read16(0xFFFF) has returned the 0xCAFE that write16(0xFFFF, 0xCAFE) stored
\* in mem[0xFFFF] and mem[0x0000]
C29_Witness ==
    /\ last.op = "read16" /\ last.addr = 65535
    /\ last.wrote = <<[addr |-> 65535, val |-> 51966]>>
    /\ RamAt(ram, 65535) = 254 /\ RamAt(ram, 0) = 202
    /\ last.ret = 51966

----------------------------------------------------------------------------
(* Programs run until BRK                                                   *)

\* run_until_brk's instruction limit
limit == 10000

\* A test that stores a program and its inputs, sets regs.PC and regs.SP and
\* calls run_until_brk; the history keeps the memory and registers it set
StartProgram(image, r) ==
    /\ ram = image
    /\ page_device = [p \in {} |-> 0]
    /\ dev = [d \in DevIds |-> NewDevice(d)]
    /\ regs = r
    /\ org_ = 0
    /\ aborted = FALSE
    /\ oob = {}
    /\ labels_ = [n \in {} |-> 0]
    /\ trace = <<>>
    /\ last = [op |-> "init", start |-> [ram |-> image, regs |-> r]]
    /\ nops = 0

\* One turn of run_until_brk's loop: return when mem[regs.PC] is the BRK
\* opcode, else run_instr(regs, mem)
RunUntilBrk ==
    /\ ~aborted /\ nops < limit
    /\ IndexGet(World, regs.PC) # 0
    /\ Stepped(run_instr(regs, World))
    /\ last' = [op |-> "step", pre |-> Snapshot, start |-> last.start]
    /\ nops' = nops + 1
    /\ UNCHANGED <<org_, oob, labels_>>

NextUntilBrk == RunUntilBrk

\* The loop counts n and the addends k tried: every n with four addends, and
\* every addend with n = 1, 5 and 255
MultiplyInputs ==
    {<<n, k>> : n \in 1 .. 255, k \in {0, 1, 16, 255}}
        \cup {<<n, k>> : n \in {1, 5, 255}, k \in 0 .. 255}

\* LDA #$00; LDY #n; loop: CLC; ADC #k; DEY; BNE loop; BRK at 0x300
InitMultiply ==
    \E in \in MultiplyInputs :
        StartProgram(StoreBytes(EmptyRam, 768,
                                <<169, 0, 160, in[1], 24, 105, in[2], 136, 208, 250>>),
                     [RegsReset EXCEPT !.PC = 768, !.SP = 255])

SpecMultiply == InitMultiply /\ [][NextUntilBrk]_vars

\* The run has stopped at a BRK opcode
AtBrk == RamAt(ram, regs.PC) = 0

\* C31: LDA #$00; LDY #n; loop: CLC; ADC #k; DEY; BNE loop; BRK reaches the
\* BRK opcode after exactly 2 + 4n steps, never later and never through a
\* fatal decode, and there A = (n * k) mod 256, Y = 0 and Z = 1; n = 5,
\* k = 0x10 stops with A = 0x50 and Y = 0x00.
C31_MultiplyStops ==
    LET n == RamAt(last.start.ram, 771)
        k == RamAt(last.start.ram, 774)
    IN  /\ ~aborted
        /\ nops <= 2 + 4 * n
        /\ AtBrk <=> nops = 2 + 4 * n
        /\ AtBrk =>
              /\ regs.PC = 778
              /\ regs.A = (n * k) % 256
              /\ regs.Y = 0
              /\ regs.flags.Z = 1
              /\ (n = 5 /\ k = 16) => regs.A = 80

\* 5 times 0x10 has stopped at the BRK after 22 steps with A = 0x50
C31_Witness ==
    /\ AtBrk /\ nops = 22
    /\ RamAt(last.start.ram, 771) = 5 /\ RamAt(last.start.ram, 774) = 16
    /\ regs.A = 80 /\ regs.Y = 0 /\ regs.flags.Z = 1

\* setup_division: the routine at 0x900
DivisionRoutine ==
    <<165, 193, 162, 8, 56, 229, 195,
      8, 38, 194, 6, 192, 42, 40, 144, 5, 229, 195, 76, 23, 9,
      101, 195,
      202, 208, 237, 176, 3, 101, 195, 24,
      38, 194, 133, 196, 96>>

\* run_division: the dividend at 0xC0 and 0xC1, the divisor at 0xC3, JSR $0900
\* and BRK at 0x800
DivisionImage(dividend, divisor) ==
    Poke(StoreBytes(StoreBytes(EmptyRam, 2304, DivisionRoutine), 2048, <<32, 0, 9>>),
         <<<<192, dividend % 256>>, <<193, dividend \div 256>>, <<195, divisor>>>>)

\* Divisors tried with every low byte of the dividend
SweptDivisors == {1, 2, 3, 5, 7, 16, 127, 128}

\* (dividend, divisor) pairs with the dividend's high byte below the divisor:
\* the tests' pairs, every divisor with the smallest and largest high byte and
\* five low bytes, and the swept divisors with every low byte
DivisionInputs ==
    {<<540, 5>>, <<255, 16>>, <<100, 10>>, <<1000, 7>>, <<0, 1>>, <<255, 1>>}
        \cup UNION {{<<256 * hi + lo, v>> : hi \in {0, v - 1}, lo \in {0, 28, 85, 232, 255}} :
                        v \in 1 .. 128}
        \cup UNION {{<<256 * hi + lo, v>> : hi \in {0, v \div 2, v - 1}, lo \in 0 .. 255} :
                        v \in SweptDivisors}

InitDivision ==
    \E in \in DivisionInputs :
        StartProgram(DivisionImage(in[1], in[2]), [RegsReset EXCEPT !.PC = 2048, !.SP = 255])

SpecDivision == InitDivision /\ [][NextUntilBrk]_vars

\* The dividend and the divisor the run started with
Dividend == RamAt(last.start.ram, 192) + 256 * RamAt(last.start.ram, 193)

Divisor == RamAt(last.start.ram, 195)

\* C32: the division routine at 0x0900, called by JSR from 0x0800 with
\* SP = 0xFF and run until the BRK at 0x0803, for a divisor v in 1..128 and a
\* dividend d whose high byte is less than v, reaches the BRK with
\* mem[0xC2] = d div v, mem[0xC4] = d mod v and SP = 0xFF; 0x021C / 5 gives 108
\* remainder 0, 255 / 16 gives 15 remainder 15, 1000 / 7 gives 142 remainder 6,
\* 0 / 1 gives 0 remainder 0 and 255 / 1 gives 255 remainder 0.
C32_DivisionStops ==
    /\ ~aborted
    /\ nops < limit
    /\ AtBrk =>
          /\ regs.PC = 2051
          /\ RamAt(ram, 194) = Dividend \div Divisor
          /\ RamAt(ram, 196) = Dividend % Divisor
          /\ regs.SP = 255
          /\ (Dividend = 540 /\ Divisor = 5) => RamAt(ram, 194) = 108 /\ RamAt(ram, 196) = 0
          /\ (Dividend = 255 /\ Divisor = 16) => RamAt(ram, 194) = 15 /\ RamAt(ram, 196) = 15
          /\ (Dividend = 1000 /\ Divisor = 7) => RamAt(ram, 194) = 142 /\ RamAt(ram, 196) = 6
          /\ (Dividend = 0 /\ Divisor = 1) => RamAt(ram, 194) = 0 /\ RamAt(ram, 196) = 0
          /\ (Dividend = 255 /\ Divisor = 1) => RamAt(ram, 194) = 255 /\ RamAt(ram, 196) = 0

\* 1000 / 7 has stopped at the BRK with quotient 142 and remainder 6
C32_Witness ==
    /\ AtBrk /\ regs.PC = 2051 /\ nops > 0
    /\ Dividend = 1000 /\ Divisor = 7
    /\ RamAt(ram, 194) = 142 /\ RamAt(ram, 196) = 6 /\ regs.SP = 255

----------------------------------------------------------------------------
(* Assembler labels                                                         *)

MaxLabelOps == 4

LabelNames == {"loop", "done"}

\* Label(name, org_): state UNINIT, no reference yet
NewLabel(name, location) ==
    [name |-> name, location |-> location, state |-> "UNINIT", word_references |-> <<>>]

\* The Label() that labels_[name] creates for a name not yet in the map
DefaultLabel == NewLabel("", 0)

LabelOf(name) == IF name \in DOMAIN labels_ THEN labels_[name] ELSE DefaultLabel

\* Assembler::reference: lbl.word_references.push_back(org_)
reference(lbl) == [lbl EXCEPT !.word_references = Append(@, org_)]

\* Assembler::label: labels_[name] = Label(name, org_), and org_ is added to the
\* new Label's word_references; the bus and the origin are not touched
label(name) ==
    [n \in DOMAIN labels_ \cup {name} |->
        IF n = name THEN reference(NewLabel(name, org_)) ELSE labels_[n]]

\* Assembler a(mem); a.org(0x300);
InitLabel ==
    /\ ram = EmptyRam
    /\ page_device = [p \in {} |-> 0]
    /\ dev = [d \in DevIds |-> NewDevice(d)]
    /\ regs = RegsReset
    /\ org_ = 768
    /\ aborted = FALSE
    /\ oob = {}
    /\ labels_ = [n \in {} |-> 0]
    /\ trace = <<>>
    /\ last = [op |-> "init", refs |-> <<>>, defs |-> <<>>]
    /\ nops = 0

AsmLabel(name) ==
    /\ ~aborted /\ nops < MaxLabelOps
    /\ labels_' = label(name)
    /\ last' = [op |-> "label", name |-> name, pre |-> Snapshot, refs |-> last.refs,
                defs |-> Append(last.defs, name)]
    /\ trace' = <<>>
    /\ nops' = nops + 1
    /\ UNCHANGED <<ram, page_device, dev, regs, org_, aborted, oob>>

\* Assembler::operator()(mnem, label): the instruction is emitted in ABS mode
\* with the location of labels_[name] as its operand, and its address is
\* recorded among the label's references
emit_label(mnem, name) ==
    [res |-> assemble_instr(mnem, "ABS", LabelOf(name).location),
     labels |-> [n \in DOMAIN labels_ \cup {name} |->
                    IF n = name THEN reference(LabelOf(name)) ELSE labels_[n]]]

AsmEmitLabel(mnem, name) ==
    /\ ~aborted /\ nops < MaxLabelOps
    /\ LET e == emit_label(mnem, name)
       IN  /\ aborted' = e.res.abort
           /\ ram' = StoreBytes(ram, org_, e.res.bytes)
           /\ oob' = oob \cup StoresOutside(org_, e.res.bytes)
           /\ org_' = U16(org_ + e.res.len)
           /\ labels_' = e.labels
    /\ last' = [op |-> "emit_label", mnem |-> mnem, name |-> name, pre |-> Snapshot,
                refs |-> Append(last.refs, [at |-> org_, name |-> name]),
                defs |-> last.defs]
    /\ trace' = <<>>
    /\ nops' = nops + 1
    /\ UNCHANGED <<page_device, dev, regs>>

NextLabel ==
    \/ \E name \in LabelNames : AsmLabel(name)
    \/ \E mnem \in {"JMP", "JSR"}, name \in LabelNames : AsmEmitLabel(mnem, name)

SpecLabel == InitLabel /\ [][NextLabel]_vars

\* How many times label(name) was called
Definitions(name) == Cardinality({i \in DOMAIN last.defs : last.defs[i] = name})

\* label(name) recorded the origin, wrote no RAM byte and left the origin
LabelRecorded ==
    last.op = "label" =>
        /\ labels_[last.name].location = org_
        /\ ram = Pre.ram
        /\ org_ = Pre.org_

\* The operand bytes of the emitted reference ref hold the location recorded
\* for its label
Patched(ref) ==
    /\ RamAt(ram, (ref.at + 1) % 65536) = labels_[ref.name].location % 256
    /\ RamAt(ram, (ref.at + 2) % 65536) = labels_[ref.name].location \div 256

\* C33: label(name) records the current origin as the location of name, writes
\* no RAM byte and does not move the origin, a later label(name) replacing the
\* location; an instruction emitted with the label as its operand has, once the
\* label is defined, operand bytes equal to the label's location, low byte
\* then high byte, whether the label was defined before or after the
\* instruction was emitted.
C33_LabelPatches ==
    /\ LabelRecorded
    /\ \A i \in DOMAIN last.refs :
          Definitions(last.refs[i].name) = 1 => Patched(last.refs[i])

\* The same for the references emitted after their label was defined
LabelPatchesBackward ==
    /\ LabelRecorded
    /\ last.op = "emit_label" =>
          (Definitions(last.name) > 0 => Patched([at |-> Pre.org_, name |-> last.name]))

----------------------------------------------------------------------------
(* The stack page                                                           *)

StackPage == 256 .. 511

\* The bytes each stack instruction pushes or pulls
StackBytes(mnem) ==
    CASE mnem \in {"PHA", "PHP", "PLA", "PLP"} -> 1
      [] mnem \in {"JSR", "RTS"} -> 2
      [] mnem \in {"BRK", "RTI"} -> 3
      [] OTHER -> 0

IsWrite(e) == e.op = "w"

IsRead(e) == e.op = "r"

Writes(t) == SelectSeq(t, IsWrite)

Reads(t) == SelectSeq(t, IsRead)

\* The stack accesses of the step just made: the writes of a pushing
\* instruction, the reads of a pulling one (the opcode fetch mem[regs.PC] is
\* not a routed access and is not in the trace)
StackAccesses ==
    IF StepOpcode.mnem \in Pushers THEN Writes(trace) ELSE Reads(trace)

\* C34: every stack access of PHA, PHP, PLA, PLP, JSR, RTS, BRK and RTI is in
\* 0x0100..0x01FF; a push writes at 0x0100 | SP and then sets SP to SP - 1
\* modulo 256, a pull sets SP to SP + 1 modulo 256 and then reads at
\* 0x0100 | SP; the wrap of SP is never fatal and never reaches page 0 or 2.
C34_StackInPageOne ==
    (last.op = "step" /\ Documented(OpcodeInRam)
        /\ StepOpcode.mnem \in Pushers \cup Pullers) =>
        LET sp == Pre.regs.SP
            n  == StackBytes(StepOpcode.mnem)
            acc == StackAccesses
        IN  /\ ~aborted
            /\ Len(acc) = n
            /\ \A i \in 1 .. Len(acc) :
                  /\ acc[i].dev = 0
                  /\ acc[i].addr \in StackPage
                  /\ StepOpcode.mnem \in Pushers =>
                        acc[i].addr = 256 + ((sp + 256 - (i - 1)) % 256)
                  /\ StepOpcode.mnem \in Pullers =>
                        acc[i].addr = 256 + ((sp + i) % 256)
            /\ StepOpcode.mnem \in Pushers => regs.SP = (sp + 256 - n) % 256
            /\ StepOpcode.mnem \in Pullers =>
                  /\ regs.SP = (sp + n) % 256
                  /\ Writes(trace) = <<>>
            /\ \A a \in (0 .. 255) \cup (512 .. 767) : RamAt(ram, a) = RamAt(Pre.ram, a)

\* A push at SP = 0x00 wrote 0x0100 and left SP = 0xFF
PushWrapped ==
    /\ last.op = "step" /\ Documented(OpcodeInRam)
    /\ StepOpcode.mnem = "PHA" /\ Pre.regs.SP = 0
    /\ Writes(trace) = <<[op |-> "w", addr |-> 256, val |-> Pre.regs.A, dev |-> 0]>>
    /\ regs.SP = 255

\* A pull at SP = 0xFF read 0x0100 and left SP = 0x00
PullWrapped ==
    /\ last.op = "step" /\ Documented(OpcodeInRam)
    /\ StepOpcode.mnem \in Pullers /\ Pre.regs.SP = 255
    /\ StackAccesses[1].addr = 256
    /\ regs.SP = (StackBytes(StepOpcode.mnem) - 1) % 256

C34_Witness == PullWrapped

\* The addresses of the operand bytes of the instruction of the last step
OperandAddrs ==
    {U16(Pre.regs.PC + i) : i \in 1 .. (addressing_mode_to_length(StepOpcode.mode) - 1)}

\* No operand byte was read after a write of the step
OperandsBeforeWrites ==
    \A i, j \in DOMAIN trace :
        (i < j /\ IsWrite(trace[i])) => ~(IsRead(trace[j]) /\ trace[j].addr \in OperandAddrs)

\* The two pushes of JSR: high byte of PC + 2 at 0x100 | SP, then the low byte
PushesHighFirst ==
    (last.op = "step" /\ Documented(OpcodeInRam) /\ StepOpcode.mnem = "JSR") =>
        LET v == U16(Pre.regs.PC + 2)
            w == Writes(trace)
        IN  /\ Len(w) = 2
            /\ w[1].addr = 256 + Pre.regs.SP /\ w[1].val = v \div 256
            /\ w[2].addr = 256 + ((Pre.regs.SP + 255) % 256) /\ w[2].val = v % 256

\* C35: within one instruction every read of its operand bytes (at PC + 1 and
\* PC + 2) happens before any stack push write of that instruction; for JSR
\* both operand reads precede the two pushes, and the pushes are high byte
\* first, then low byte.
C35_OperandsBeforePushes ==
    (last.op = "step" /\ Documented(OpcodeInRam)) =>
        /\ OperandsBeforeWrites
        /\ PushesHighFirst

----------------------------------------------------------------------------
(* Read-modify-write on a device                                            *)

Modifiers == {"INC", "DEC", "ASL", "LSR", "ROL", "ROR"}

\* The byte a read-modify-write instruction stores for the byte old it read
Modified(mnem, old, c) ==
    CASE mnem = "INC" -> (old + 1) % 256
      [] mnem = "DEC" -> (old + 255) % 256
      [] OTHER -> Shifted(mnem, old, c).new

IsDeviceAccess(e) == e.dev # 0

\* The last step ran INC, DEC, ASL, LSR, ROL or ROR on memory, its bytes in
\* unmapped RAM, the effective address under a device
ModifiesDevice ==
    /\ last.op = "step"
    /\ Documented(OpcodeInRam)
    /\ StepOpcode.mnem \in Modifiers
    /\ StepOpcode.mode \in {"ZPG", "ZPG_X", "ABS", "ABS_X"}
    /\ \A i \in 0 .. 2 : ~Mapped(Pre.page_device, Pre.regs.PC + i)
    /\ Mapped(Pre.page_device, StepTarget)

\* C36: a step of INC, DEC, ASL, LSR, ROL or ROR in ZPG, ZPG_X, ABS or ABS_X
\* whose effective address is in a device-mapped page, the instruction bytes in
\* RAM, makes exactly one device read at the effective address followed by
\* exactly one device write of the new value at the same address, and no
\* other access to a device.
C36_ReadThenWrite ==
    ModifiesDevice =>
        LET d   == PageAt(Pre.page_device, StepTarget \div 256)
            old == Pre.dev[d].read_val
            new == Modified(StepOpcode.mnem, old, Pre.regs.flags.C)
        IN  /\ ~aborted
            /\ SelectSeq(trace, IsDeviceAccess) =
                  <<[op |-> "r", addr |-> StepTarget, val |-> old, dev |-> d],
                    [op |-> "w", addr |-> StepTarget, val |-> new, dev |-> d]>>
            /\ dev[d].read_count = Pre.dev[d].read_count + 1
            /\ dev[d].write_count = Pre.dev[d].write_count + 1
            /\ dev[d].last_write_val = new
            /\ \A o \in DevIds \ {d} : dev[o] = Pre.dev[o]
            /\ ram = Pre.ram

\* ROR $C020,X with X = 0x10 and C = 1 read 0x42 from the device of page 0xC0
\* at 0xC030 and wrote 0xA1 there
C36_Witness ==
    /\ ModifiesDevice
    /\ StepOpcode = [mnem |-> "ROR", byte |-> 126, mode |-> "ABS_X"]
    /\ Pre.regs.X = 16 /\ Pre.regs.flags.C = 1
    /\ StepTarget = 49200
    /\ Len(trace) > 2
    /\ dev[1].last_write_val = 161

----------------------------------------------------------------------------
(* Address arithmetic at the ends of the zero page and of the address space *)

\* The zero-page addresses that hold a byte: both ends of the page and the
\* neighbourhoods of the operands 0x10, 0x20 and 0xF0
ZeroPageData == {0, 1, 2, 15, 16, 17, 18, 31, 32, 33, 239, 240, 241, 254, 255}

\* Bytes that differ from their neighbours, so that every pointer in the zero
\* page names another address
ZeroPageByte(a) == IF a \in ZeroPageData THEN (a * 37 + 11) % 256 ELSE 0

\* The instruction opc lo hi at pc over that zero page, each byte at its
\* address mod 2^16
WrapProgram(pc, opc, lo, hi) ==
    LET pc1 == (pc + 1) % 65536
        pc2 == (pc + 2) % 65536
        ByteAt(a) == IF a = pc THEN opc
                     ELSE IF a = pc1 THEN lo
                     ELSE IF a = pc2 THEN hi
                     ELSE ZeroPageByte(a)
    IN  [a \in {b \in ZeroPageData \cup {pc, pc1, pc2} : ByteAt(b) # 0} |-> ByteAt(a)]

\* The zero-page indexed and indirect instructions: ORA, LDA and STA zpg,X,
\* (zp,X) and (zp),Y, LDX and STX zpg,Y, INC and ASL zpg,X
ZeroPageOpcodes == {21, 1, 17, 181, 161, 177, 149, 129, 145, 182, 150, 246, 22}

\* In RAM away from both ends, and with one, two or all three bytes before the
\* end of the address space
WrapPCs == {768, 65533, 65534, 65535}

\* X and Y: no index, the test's 0x20 with 1, and 0xFF
WrapIndexes == {<<0, 0>>, <<32, 1>>, <<255, 255>>}

\* Every zero-page operand for the zero-page instructions; every opcode byte
\* with operands at the ends of the zero page and of the address space
WrapInputs ==
    {<<opc, lo, 18, pc>> : opc \in ZeroPageOpcodes, lo \in 0 .. 255, pc \in {768, 65535}}
    \cup {<<opc, lo, hi, pc>> : opc \in 0 .. 255, lo \in {16, 240, 255}, hi \in {18, 255},
                                pc \in WrapPCs}

InitWrap ==
    \E in \in WrapInputs, xy \in WrapIndexes :
        Start(WrapProgram(in[4], in[1], in[2], in[3]),
              [PC |-> in[4], A |-> 90, X |-> xy[1], Y |-> xy[2], SP |-> 253,
               flags |-> AllFlags(0)],
              NoDevices)

SpecWrap == InitWrap /\ [][NextCpu]_vars

\* The addresses of the routed accesses of the last step, in order
Addrs == [i \in DOMAIN trace |-> trace[i].addr]

\* The accesses to the target ea: read and write for INC, DEC and the shifts,
\* one access otherwise
TargetAccesses(ea) == IF StepOpcode.mnem \in Modifiers THEN <<ea, ea>> ELSE <<ea>>

\* The last step ran an instruction in the mode
SteppedIn(mode) ==
    /\ last.op = "step"
    /\ Documented(OpcodeInRam)
    /\ StepOpcode.mode = mode

\* C37: zero-page address arithmetic stays in page zero, for operand reads and
\* for the effective address of stores and read-modify-writes: the ZPG_X and
\* ZPG_Y address is (zp + X) mod 256 resp. (zp + Y) mod 256, the X_IND pointer
\* bytes are read at (zp + X) mod 256 and (zp + X + 1) mod 256, the IND_Y
\* pointer bytes at zp and (zp + 1) mod 256.
C37_ZeroPageWraps ==
    LET pc1 == (Pre.regs.PC + 1) % 65536
        zp  == RamAt(Pre.ram, pc1)
        x   == Pre.regs.X
        y   == Pre.regs.Y
        At(a) == RamAt(Pre.ram, a)
    IN  /\ SteppedIn("ZPG_X") =>
              /\ ~aborted
              /\ Addrs = <<pc1>> \o TargetAccesses((zp + x) % 256)
        /\ SteppedIn("ZPG_Y") =>
              /\ ~aborted
              /\ Addrs = <<pc1>> \o TargetAccesses((zp + y) % 256)
        /\ SteppedIn("X_IND") =>
              /\ ~aborted
              /\ Addrs = <<pc1, (zp + x) % 256, (zp + x + 1) % 256,
                           At((zp + x) % 256) + 256 * At((zp + x + 1) % 256)>>
        /\ SteppedIn("IND_Y") =>
              /\ ~aborted
              /\ Addrs = <<pc1, zp, (zp + 1) % 256,
                           (At(zp) + 256 * At((zp + 1) % 256) + y) % 65536>>

\* ORA $F0,X with X = 0x20 read its operand at 0x0010
C37_Witness ==
    /\ SteppedIn("ZPG_X")
    /\ StepOpcode.mnem = "ORA"
    /\ Pre.regs.PC = 768 /\ Pre.regs.X = 32
    /\ RamAt(Pre.ram, 769) = 240
    /\ trace[2] = [op |-> "r", addr |-> 16, val |-> RamAt(Pre.ram, 16), dev |-> 0]
    /\ regs.A = BitOr(90, RamAt(Pre.ram, 16))

\* LDA ($FF),Y took its pointer from 0x00FF and 0x0000
PointerWrapped ==
    /\ SteppedIn("IND_Y")
    /\ StepOpcode.mnem = "LDA"
    /\ Pre.regs.PC = 768
    /\ Addrs[2] = 255 /\ Addrs[3] = 0

Jumps == {"JMP", "JSR", "RTS", "RTI", "BRK",
          "BCC", "BCS", "BEQ", "BMI", "BNE", "BPL", "BVC", "BVS"}

\* C38: 16-bit address arithmetic wraps modulo 2^16: in ABS_X, ABS_Y and IND_Y
\* the address accessed is (base + index) mod 2^16, the same for a read, a
\* store and a read-modify-write; the operand bytes are fetched from
\* (PC + 1) mod 2^16 and (PC + 2) mod 2^16; an instruction that is not a jump,
\* branch, return or BRK leaves PC = (PC + length(mode)) mod 2^16.
C38_AddressSpaceWraps ==
    (last.op = "step" /\ Documented(OpcodeInRam)) =>
        LET pc1  == (Pre.regs.PC + 1) % 65536
            pc2  == (Pre.regs.PC + 2) % 65536
            len  == addressing_mode_to_length(StepOpcode.mode)
            base == RamAt(Pre.ram, pc1) + 256 * RamAt(Pre.ram, pc2)
            zp   == RamAt(Pre.ram, pc1)
            ptr  == RamAt(Pre.ram, zp) + 256 * RamAt(Pre.ram, (zp + 1) % 256)
        IN  /\ ~aborted
            /\ len \in {1, 2, 3}
            /\ StepOpcode.mode = "ABS_X" =>
                  Addrs = <<pc1, pc2>> \o TargetAccesses((base + Pre.regs.X) % 65536)
            /\ StepOpcode.mode = "ABS_Y" =>
                  Addrs = <<pc1, pc2>> \o TargetAccesses((base + Pre.regs.Y) % 65536)
            /\ StepOpcode.mode = "IND_Y" =>
                  Addrs[Len(Addrs)] = (ptr + Pre.regs.Y) % 65536
            /\ (len >= 2 /\ StepOpcode.mode # "REL") => Reads(trace)[1].addr = pc1
            /\ (StepOpcode.mode = "REL" /\ Reads(trace) # <<>>) => Addrs = <<pc1>>
            /\ len = 3 => Reads(trace)[2].addr = pc2
            /\ StepOpcode.mnem \notin Jumps => regs.PC = (Pre.regs.PC + len) % 65536

\* STA $FFF0,X at 0xFFFE with X = 0x20: operand bytes from 0xFFFF and 0x0000,
\* the store at 0x0010, PC = 0x0001
C38_Witness ==
    /\ SteppedIn("ABS_X")
    /\ StepOpcode.mnem = "STA"
    /\ Pre.regs.PC = 65534 /\ Pre.regs.X = 32
    /\ trace = <<[op |-> "r", addr |-> 65535, val |-> 240, dev |-> 0],
                 [op |-> "r", addr |-> 0, val |-> 255, dev |-> 0],
                 [op |-> "w", addr |-> 16, val |-> 90, dev |-> 0]>>
    /\ RamAt(ram, 16) = 90
    /\ regs.PC = 1

----------------------------------------------------------------------------
(* The status byte                                                          *)

\* The status byte the last step pushed: the one write of PHP, the third
\* write of BRK
PushedStatus ==
    LET w == Writes(trace)
    IN  w[Len(w)].val

PushedAStatus ==
    /\ last.op = "step"
    /\ Documented(OpcodeInRam)
    /\ StepOpcode.mnem \in {"PHP", "BRK"}

\* The byte packs the flags f, low bit first, as C, Z, I, D, b, 1, V, N
Packs(byte, f, b) ==
    /\ byte \in 0 .. 255
    /\ Bit(byte, 0) = f.C /\ Bit(byte, 1) = f.Z /\ Bit(byte, 2) = f.I
    /\ Bit(byte, 3) = f.D /\ Bit(byte, 4) = Bool(b) /\ Bit(byte, 5) = 1
    /\ Bit(byte, 6) = f.V /\ Bit(byte, 7) = f.N

\* Bits 0, 1, 2, 3, 6 and 7 of a status byte as the six flags
Unpacked(byte) ==
    [C |-> Bit(byte, 0), Z |-> Bit(byte, 1), I |-> Bit(byte, 2), D |-> Bit(byte, 3),
     V |-> Bit(byte, 6), N |-> Bit(byte, 7)]

\* C39: in every reachable state each of the six flags is 0 or 1 and
\* read_flags(b) packs them, low bit first, as C, Z, I, D, b, 1, V, N; every
\* status byte pushed by PHP or BRK has bit 5 = 1 and bit 4 = 1; unpacking
\* bits 0, 1, 2, 3, 6 and 7 of read_flags(b) gives back the six flags, for
\* either b.
C39_StatusByte ==
    /\ regs.flags \in FlagStates
    /\ \A b \in BOOLEAN :
          /\ Packs(read_flags(regs, b), regs.flags, b)
          /\ Unpacked(read_flags(regs, b)) = regs.flags
    /\ PushedAStatus =>
          /\ Bit(PushedStatus, 5) = 1
          /\ Bit(PushedStatus, 4) = 1
          /\ Packs(PushedStatus, Pre.regs.flags, TRUE)

\* BRK with C, I and N set pushed 0xB5
C39_Witness ==
    /\ PushedAStatus
    /\ StepOpcode.mnem = "BRK"
    /\ Pre.regs.flags = [C |-> 1, Z |-> 0, I |-> 1, D |-> 0, V |-> 0, N |-> 1]
    /\ PushedStatus = 181
    /\ StackAt(ram, Pre.regs.SP + 254) = 181

----------------------------------------------------------------------------
(* Emitting at the end of the address space                                 *)

\* The last operation emitted an instruction of two or three bytes
EmittedLong ==
    /\ last.op = "emit"
    /\ ~aborted
    /\ assemble_instr(last.mnem, last.mode, last.imm).len \in {2, 3}

\* C40: for every origin o, 0xFFFE and 0xFFFF included, the emit of a 2- or
\* 3-byte instruction writes byte i at (o + i) mod 2^16 inside the RAM array,
\* as the origin itself wraps to (o + length) mod 2^16; the assembler never
\* writes outside 0x0000..0xFFFF.
C40_EmitWrapsInRam ==
    EmittedLong =>
        LET res == assemble_instr(last.mnem, last.mode, last.imm)
            o   == Pre.org_
        IN  /\ oob = {}
            /\ \A i \in 1 .. res.len : RamAt(ram, (o + i - 1) % 65536) = res.bytes[i]
            /\ org_ = (o + res.len) % 65536

\* The same for the emits that end at or before 0xFFFF
EmitInsideRam ==
    (EmittedLong /\ Pre.org_ + assemble_instr(last.mnem, last.mode, last.imm).len <= 65536) =>
        LET res == assemble_instr(last.mnem, last.mode, last.imm)
            o   == Pre.org_
        IN  /\ StoresOutside(o, res.bytes) = {}
            /\ \A i \in 1 .. res.len : RamAt(ram, o + i - 1) = res.bytes[i]
            /\ org_ = (o + res.len) % 65536
====
